---------------------------- MODULE Spec2Model ----------------------------
(***************************************************************************)
(* CivicMindAI: the query router (AgentController), the Cache strategy     *)
(* (CAGModule) and the Conversational strategy (SLMModule), as state       *)
(* machines over the text of the query.                                    *)
(*                                                                         *)
(* Text is modelled by TLA+ strings, which TLC treats as sequences of      *)
(* characters: Len, SubSeq and \o act on them as on Python's str.  The     *)
(* decorative emoji of the formatted answers are left out of the string    *)
(* literals; every other character of a template is kept.                  *)
(***************************************************************************)
EXTENDS Integers, Sequences, FiniteSets, TLC

(***************************************************************************)
(* Characters and the str methods the code uses                            *)
(***************************************************************************)
UpperAlpha == "ABCDEFGHIJKLMNOPQRSTUVWXYZ"
LowerAlpha == "abcdefghijklmnopqrstuvwxyz"
Digits == "0123456789"

CharsOf(s) == {SubSeq(s, i, i) : i \in 1..Len(s)}

UpperChars == CharsOf(UpperAlpha)
LowerChars == CharsOf(LowerAlpha)
WordChars == UpperChars \cup LowerChars \cup CharsOf(Digits) \cup {"_"}

\* The lower-case (upper-case) form of every upper-case (lower-case) letter.
ToLower ==
    [c \in UpperChars |->
        LET i == CHOOSE i \in 1..Len(UpperAlpha) : SubSeq(UpperAlpha, i, i) = c
        IN  SubSeq(LowerAlpha, i, i)]

ToUpper ==
    [c \in LowerChars |->
        LET i == CHOOSE i \in 1..Len(LowerAlpha) : SubSeq(LowerAlpha, i, i) = c
        IN  SubSeq(UpperAlpha, i, i)]

LowerChar(c) == IF c \in UpperChars THEN ToLower[c] ELSE c

UpperChar(c) == IF c \in LowerChars THEN ToUpper[c] ELSE c

IsCased(c) == c \in UpperChars \cup LowerChars

\* str.lower(): every character lower-cased (the string is halved rather
\* than walked, the result is the same).
RECURSIVE Lower(_)
Lower(s) ==
    IF Len(s) = 0 THEN ""
    ELSE IF Len(s) = 1 THEN LowerChar(s)
    ELSE Lower(SubSeq(s, 1, Len(s) \div 2))
         \o Lower(SubSeq(s, Len(s) \div 2 + 1, Len(s)))

\* str.title(): a cased character is upper-cased after an uncased one (or
\* at the start) and lower-cased after a cased one.
RECURSIVE TitleFrom(_, _)
TitleFrom(s, prevCased) ==
    IF Len(s) = 0 THEN ""
    ELSE IF Len(s) = 1 THEN (IF prevCased THEN LowerChar(s) ELSE UpperChar(s))
    ELSE LET half == Len(s) \div 2
         IN  TitleFrom(SubSeq(s, 1, half), prevCased)
             \o TitleFrom(SubSeq(s, half + 1, Len(s)),
                          IsCased(SubSeq(s, half, half)))

Title(s) == TitleFrom(s, FALSE)

\* k in s
Contains(s, k) ==
    \E i \in 1..(Len(s) - Len(k) + 1) : SubSeq(s, i, i + Len(k) - 1) = k

Whitespace == {" ", "\t", "\n", "\r", "\f"}

\* str.strip()
RECURSIVE LStrip(_)
LStrip(s) ==
    IF Len(s) > 0 /\ SubSeq(s, 1, 1) \in Whitespace
    THEN LStrip(SubSeq(s, 2, Len(s))) ELSE s

RECURSIVE RStrip(_)
RStrip(s) ==
    IF Len(s) > 0 /\ SubSeq(s, Len(s), Len(s)) \in Whitespace
    THEN RStrip(SubSeq(s, 1, Len(s) - 1)) ELSE s

Strip(s) == LStrip(RStrip(s))

(***************************************************************************)
(* re.search for the shapes of pattern the routing tables use.  A pattern  *)
(* is a tree: <<"lit", text>>, <<"wb">> for \b, <<"ws">> for \s+,          *)
(* <<"any">> for .*, <<"alt", <<p1, ..., pn>>>> for (p1|...|pn) and        *)
(* <<"cat", <<p1, ..., pn>>>> for p1...pn.                                 *)
(***************************************************************************)
IsWordChar(c) == c \in WordChars

\* \b at position i (between character i-1 and character i of s)
WordBoundary(s, i) ==
    LET before == i > 1 /\ i - 1 <= Len(s) /\ IsWordChar(SubSeq(s, i - 1, i - 1))
        after  == i >= 1 /\ i <= Len(s) /\ IsWordChar(SubSeq(s, i, i))
    IN  before # after

Lit(t) == <<"lit", t>>
WB == <<"wb">>
WS == <<"ws">>
AnyRun == <<"any">>
Alt(ps) == <<"alt", ps>>
Cat(ps) == <<"cat", ps>>

\* The positions at which a match of pattern p that starts at position i of
\* s can end (the index of the first character after the match).
RECURSIVE MatchEnds(_, _, _)
RECURSIVE CatEnds(_, _, _, _)
MatchEnds(p, s, i) ==
    CASE p[1] = "lit" ->
            IF i + Len(p[2]) - 1 <= Len(s) /\ SubSeq(s, i, i + Len(p[2]) - 1) = p[2]
            THEN {i + Len(p[2])} ELSE {}
      [] p[1] = "wb" -> IF WordBoundary(s, i) THEN {i} ELSE {}
      [] p[1] = "ws" ->
            {j \in (i + 1)..(Len(s) + 1) :
                \A k \in i..(j - 1) : SubSeq(s, k, k) \in Whitespace}
      [] p[1] = "any" ->
            {j \in i..(Len(s) + 1) : \A k \in i..(j - 1) : SubSeq(s, k, k) # "\n"}
      [] p[1] = "alt" -> UNION {MatchEnds(p[2][n], s, i) : n \in 1..Len(p[2])}
      [] p[1] = "cat" -> CatEnds(p[2], 1, s, {i})

CatEnds(ps, n, s, starts) ==
    IF n > Len(ps) \/ starts = {} THEN starts
    ELSE CatEnds(ps, n + 1, s, UNION {MatchEnds(ps[n], s, i) : i \in starts})

\* re.search(p, s) is not None
re_search(p, s) == \E i \in 1..(Len(s) + 1) : MatchEnds(p, s, i) # {}

(***************************************************************************)
(* AgentController: the routing tables                                     *)
(***************************************************************************)
\* The insertion order of the scores dict, which max() iterates.
ModuleOrder == <<"CAG", "RAG", "KAG", "SLM">>
Modules == {"CAG", "RAG", "KAG", "SLM"}

Words(ws) == Alt([n \in 1..Len(ws) |-> Lit(ws[n])])

routing_patterns ==
    [CAG |-> [
        keywords |-> <<"helpline", "contact", "number", "phone", "emergency",
                       "fire", "police", "ambulance", "hospital",
                       "office hours", "timing", "schedule", "website",
                       "zone contact", "collector office", "mayor office">>,
        patterns |-> <<
            [src |-> "\\b(helpline|contact|number|phone)\\b",
             re  |-> Cat(<<WB, Words(<<"helpline", "contact", "number", "phone">>), WB>>)],
            [src |-> "\\b(emergency|fire|police|ambulance)\\b",
             re  |-> Cat(<<WB, Words(<<"emergency", "fire", "police", "ambulance">>), WB>>)],
            [src |-> "\\b(office hours|timing|schedule)\\b",
             re  |-> Cat(<<WB, Words(<<"office hours", "timing", "schedule">>), WB>>)],
            [src |-> "\\b(zone|area)\\s+(contact|number)\\b",
             re  |-> Cat(<<WB, Words(<<"zone", "area">>), WS,
                           Words(<<"contact", "number">>), WB>>)] >>],
     RAG |-> [
        keywords |-> <<"latest", "recent", "update", "current", "new", "report",
                       "schedule", "timings", "rules", "guidelines", "notification",
                       "2025", "october", "september", "today">>,
        patterns |-> <<
            [src |-> "\\b(latest|recent|update|current|new)\\b",
             re  |-> Cat(<<WB, Words(<<"latest", "recent", "update", "current", "new">>), WB>>)],
            [src |-> "\\b(rules|guidelines|notification)\\s+(2025|2024)\\b",
             re  |-> Cat(<<WB, Words(<<"rules", "guidelines", "notification">>), WS,
                           Words(<<"2025", "2024">>), WB>>)],
            [src |-> "\\b(schedule|timing)\\s+(for|of)\\b",
             re  |-> Cat(<<WB, Words(<<"schedule", "timing">>), WS,
                           Words(<<"for", "of">>), WB>>)],
            [src |-> "\\b(what is|show me)\\s+.*(schedule|timing|rule)\\b",
             re  |-> Cat(<<WB, Words(<<"what is", "show me">>), WS, AnyRun,
                           Words(<<"schedule", "timing", "rule">>), WB>>)] >>],
     KAG |-> [
        keywords |-> <<"how to", "procedure", "steps", "process", "apply",
                       "get", "obtain", "registration", "application",
                       "who handles", "responsible", "department",
                       "repair", "complaint", "issue">>,
        patterns |-> <<
            [src |-> "\\b(how to|procedure|steps|process)\\b",
             re  |-> Cat(<<WB, Words(<<"how to", "procedure", "steps", "process">>), WB>>)],
            [src |-> "\\b(apply|get|obtain)\\s+(for|a|an)\\b",
             re  |-> Cat(<<WB, Words(<<"apply", "get", "obtain">>), WS,
                           Words(<<"for", "a", "an">>), WB>>)],
            [src |-> "\\b(who handles|responsible|department)\\b",
             re  |-> Cat(<<WB, Words(<<"who handles", "responsible", "department">>), WB>>)],
            [src |-> "\\b(repair|complaint|issue)\\s+(in|at|for)\\b",
             re  |-> Cat(<<WB, Words(<<"repair", "complaint", "issue">>), WS,
                           Words(<<"in", "at", "for">>), WB>>)] >>],
     SLM |-> [
        keywords |-> <<"hello", "hi", "hey", "who are you", "what are you",
                       "thank", "thanks", "bye", "goodbye", "help",
                       "chat", "talk", "conversation">>,
        patterns |-> <<
            [src |-> "\\b(hello|hi|hey|good\\s+(morning|afternoon|evening))\\b",
             re  |-> Cat(<<WB, Alt(<<Lit("hello"), Lit("hi"), Lit("hey"),
                                     Cat(<<Lit("good"), WS,
                                           Words(<<"morning", "afternoon", "evening">>)>>)>>),
                           WB>>)],
            [src |-> "\\b(who|what)\\s+are\\s+you\\b",
             re  |-> Cat(<<WB, Words(<<"who", "what">>), WS, Lit("are"), WS, Lit("you"), WB>>)],
            [src |-> "\\b(thank|thanks|appreciate)\\b",
             re  |-> Cat(<<WB, Words(<<"thank", "thanks", "appreciate">>), WB>>)],
            [src |-> "\\b(bye|goodbye|see\\s+you)\\b",
             re  |-> Cat(<<WB, Alt(<<Lit("bye"), Lit("goodbye"),
                                     Cat(<<Lit("see"), WS, Lit("you")>>)>>),
                           WB>>)] >>]]


(***************************************************************************)
(* AgentController.analyze_query                                           *)
(***************************************************************************)
KeywordWeight == 1
PatternWeight == 2

\* The keyword loop of one module: every keyword contained in the lower-cased
\* query adds KeywordWeight and appends "keyword: <keyword>".
RECURSIVE KeywordLoop(_, _, _, _)
KeywordLoop(keywords, n, query_lower, acc) ==
    IF n > Len(keywords) THEN acc
    ELSE KeywordLoop(keywords, n + 1, query_lower,
            IF Contains(query_lower, keywords[n])
            THEN [score   |-> acc.score + KeywordWeight,
                  matched |-> Append(acc.matched, "keyword: " \o keywords[n])]
            ELSE acc)

\* A variant of the pattern loop that gives a pattern the weight of a keyword.
RECURSIVE PatternLoopUnitWeight(_, _, _, _)
PatternLoopUnitWeight(patterns, n, query_lower, acc) ==
    IF n > Len(patterns) THEN acc
    ELSE PatternLoopUnitWeight(patterns, n + 1, query_lower,
            IF re_search(patterns[n].re, query_lower)
            THEN [score   |-> acc.score + KeywordWeight,
                  matched |-> Append(acc.matched, "pattern: " \o patterns[n].src)]
            ELSE acc)

\* The pattern loop of one module: every pattern found in the lower-cased
\* query adds PatternWeight and appends "pattern: <pattern>".
RECURSIVE PatternLoop(_, _, _, _)
PatternLoop(patterns, n, query_lower, acc) ==
    IF n > Len(patterns) THEN acc
    ELSE PatternLoop(patterns, n + 1, query_lower,
            IF re_search(patterns[n].re, query_lower)
            THEN [score   |-> acc.score + PatternWeight,
                  matched |-> Append(acc.matched, "pattern: " \o patterns[n].src)]
            ELSE acc)

ScoreModule(module, query_lower) ==
    PatternLoop(routing_patterns[module].patterns, 1, query_lower,
        KeywordLoop(routing_patterns[module].keywords, 1, query_lower,
            [score |-> 0, matched |-> <<>>]))

\* A variant of max that keeps the last key holding the highest score.
RECURSIVE MaxByScoreLastWins(_, _, _)
MaxByScoreLastWins(scores, n, best) ==
    IF n > Len(ModuleOrder) THEN best
    ELSE MaxByScoreLastWins(scores, n + 1,
            IF scores[ModuleOrder[n]] >= scores[best] THEN ModuleOrder[n] ELSE best)

\* max(scores, key=scores.get): the first key, in the dict's insertion order,
\* whose score no later key exceeds strictly.
RECURSIVE MaxByScore(_, _, _)
MaxByScore(scores, n, best) ==
    IF n > Len(ModuleOrder) THEN best
    ELSE MaxByScore(scores, n + 1,
            IF scores[ModuleOrder[n]] > scores[best] THEN ModuleOrder[n] ELSE best)

BestModule(scores) == MaxByScore(scores, 2, ModuleOrder[1])

RECURSIVE SumScores(_, _)
SumScores(scores, n) ==
    IF n > Len(ModuleOrder) THEN 0
    ELSE scores[ModuleOrder[n]] + SumScores(scores, n + 1)

MaxInt(a, b) == IF a >= b THEN a ELSE b

\* A variant of the selection without the `if best_score == 0` default.
SelectModuleByMaxOnly(scores) == BestModule(scores)

\* 'selected_module': max of the scores, replaced by SLM when that is 0.
SelectModule(scores) ==
    IF scores[BestModule(scores)] = 0 THEN "SLM" ELSE BestModule(scores)

\* A variant of the confidence that divides by one more than the sum.
ConfidenceOverSumPlusOne(scores) ==
    [num |-> scores[BestModule(scores)], den |-> SumScores(scores, 1) + 1]

\* 'confidence': best_score / max(sum(scores.values()), 1), kept as the
\* fraction num / den.
Confidence(scores) ==
    [num |-> scores[BestModule(scores)], den |-> MaxInt(SumScores(scores, 1), 1)]

analyze_query(query) ==
    LET query_lower == Lower(query)
        result == [m \in Modules |-> ScoreModule(m, query_lower)]
        scores == [m \in Modules |-> result[m].score]
    IN  [selected_module  |-> SelectModule(scores),
         scores           |-> scores,
         matched_patterns |-> [m \in Modules |-> result[m].matched],
         confidence       |-> Confidence(scores)]


(***************************************************************************)
(* Python values: None, a raised exception, and JSON values of a snapshot  *)
(***************************************************************************)
None == [type |-> "NoneType"]
Raise(error) == [type |-> "raise", error |-> error]
IsRaise(v) == "type" \in DOMAIN v /\ v.type = "raise"
\* A str, where the same expression may yield None or raise instead.
Str(s) == [type |-> "str", value |-> s]

\* A JSON object, from its <<key, value>> pairs in document order (the order
\* in which a dict iterates), and JSON null, as json.load returns them.
Dict(pairs) ==
    [kind  |-> "dict",
     keys  |-> [n \in 1..Len(pairs) |-> pairs[n][1]],
     items |-> [k \in {pairs[n][1] : n \in 1..Len(pairs)} |->
                  pairs[CHOOSE n \in 1..Len(pairs) :
                            /\ pairs[n][1] = k
                            /\ \A m \in (n + 1)..Len(pairs) : pairs[m][1] # k][2]]]
JsonNull == [kind |-> "null"]
EmptyDict == Dict(<<>>)

NotIterable == "argument of type 'NoneType' is not iterable"
NoItems == "'NoneType' object has no attribute 'items'"

(***************************************************************************)
(* The cache snapshot data/civic_cache.json                                *)
(***************************************************************************)
civic_cache ==
    [emergency_contacts |-> Dict(<<
         <<"fire", "101">>,
         <<"police", "100">>,
         <<"ambulance", "108">>,
         <<"chennai_corporation", "1913">>,
         <<"cmwssb_complaint", "044-45674567">>,
         <<"electricity_complaint", "044-25675765">>,
         <<"gas_leak", "1906">>,
         <<"women_helpline", "1091">>,
         <<"child_helpline", "1098">>,
         <<"disaster_management", "108">>,
         <<"flood_helpline", "1913">> >>),
     government_contacts |-> Dict(<<
         <<"collector_office", "044-28520314">>,
         <<"mayor_office", "044-25384681">>,
         <<"district_collector", "044-25620314">>,
         <<"cm_cell", "044-25675765">>,
         <<"tn_police_control", "044-28447095">> >>),
     civic_services_helplines |-> Dict(<<
         <<"property_tax", "1913">>,
         <<"water_tax", "044-28451300">>,
         <<"birth_certificate", "044-25384680">>,
         <<"death_certificate", "044-25384680">>,
         <<"trade_license", "044-25384689">>,
         <<"building_permit", "044-25384690">>,
         <<"marriage_registration", "044-25384685">> >>),
     zone_contacts |-> Dict(<<
         <<"zone_1_north", "044-28451300 Ext.233">>,
         <<"zone_2_north_east", "044-28451300 Ext.213">>,
         <<"zone_3_central", "044-28451300 Ext.212">>,
         <<"zone_4_south_west", "044-28451300 Ext.386">>,
         <<"zone_5_south", "044-28451300 Ext.211">>,
         <<"zone_6_adyar", "044-24912345">>,
         <<"zone_7_anna_nagar", "044-26152345">>,
         <<"zone_8_teynampet", "044-24332345">> >>),
     quick_info |-> Dict(<<
         <<"corporation_office_hours", "9:30 AM to 5:30 PM (Monday to Friday)">>,
         <<"emergency_services", "24x7 Available">>,
         <<"water_supply_timings", "6 AM to 8 AM and 6 PM to 8 PM">>,
         <<"garbage_collection", "Daily 6 AM to 10 AM">>,
         <<"property_tax_due_date", "31st March every year">>,
         <<"water_tax_frequency", "Bi-monthly">>,
         <<"corporation_website", "https://chennaicorporation.gov.in">>,
         <<"cmwssb_website", "https://cmwssb.tn.gov.in">> >>)]

(***************************************************************************)
(* CAGModule: the keyword tables, in the iteration order of their dicts    *)
(***************************************************************************)
emergency_triggers == <<"emergency", "helpline", "contact", "phone", "number">>
government_triggers == <<"office", "collector", "mayor", "government">>
civic_triggers == <<"tax", "certificate", "license", "permit">>
zone_triggers == <<"zone", "area", "ward", "anna nagar", "adyar">>
quick_triggers == <<"timing", "hours", "schedule", "website">>

emergency_keywords ==
    << <<"fire", "fire">>, <<"police", "police">>, <<"ambulance", "ambulance">>,
       <<"medical", "ambulance">>, <<"hospital", "ambulance">>,
       <<"flood", "flood_helpline">>, <<"water emergency", "cmwssb_complaint">>,
       <<"electricity", "electricity_complaint">>, <<"gas", "gas_leak">>,
       <<"women", "women_helpline">>, <<"child", "child_helpline">>,
       <<"corporation", "chennai_corporation">> >>

gov_keywords ==
    << <<"collector", "collector_office">>, <<"mayor", "mayor_office">>,
       <<"district", "district_collector">>, <<"cm", "cm_cell">>,
       <<"chief minister", "cm_cell">>, <<"police control", "tn_police_control">> >>

service_keywords ==
    << <<"property tax", "property_tax">>, <<"water tax", "water_tax">>,
       <<"birth certificate", "birth_certificate">>,
       <<"death certificate", "death_certificate">>,
       <<"trade license", "trade_license">>,
       <<"building permit", "building_permit">>,
       <<"marriage", "marriage_registration">> >>

zone_keywords ==
    << <<"north", "zone_1_north">>, <<"north east", "zone_2_north_east">>,
       <<"central", "zone_3_central">>, <<"south west", "zone_4_south_west">>,
       <<"south", "zone_5_south">>, <<"adyar", "zone_6_adyar">>,
       <<"anna nagar", "zone_7_anna_nagar">>, <<"teynampet", "zone_8_teynampet">> >>

\* <<keyword, info_key, isinstance(info_key, list)>>: the value of 'website'
\* is the list of the two website keys.
info_keywords ==
    << <<"office hours", "corporation_office_hours", FALSE>>,
       <<"timing", "corporation_office_hours", FALSE>>,
       <<"water supply", "water_supply_timings", FALSE>>,
       <<"garbage", "garbage_collection", FALSE>>,
       <<"tax due", "property_tax_due_date", FALSE>>,
       <<"website", <<"corporation_website", "cmwssb_website">>, TRUE>> >>

AlwaysOpen == {"fire", "police", "ambulance"}

\* any(keyword in query for keyword in words)
AnyIn(words, query) == \E n \in 1..Len(words) : Contains(query, words[n])

\* self.cache_data.get(category, {})
CategoryData(cache, category) ==
    IF category \in DOMAIN cache THEN cache[category] ELSE EmptyDict

\* "for keyword, key in table.items(): if keyword in query: if key in data:
\* return ...": the first entry whose keyword is in the query and whose key
\* is in data, 0 when the loop ends without one.  `key in data` raises
\* TypeError when data is None.
RECURSIVE ProbeTable(_, _, _, _)
ProbeTable(table, n, query, data) ==
    IF n > Len(table) THEN [type |-> "miss"]
    ELSE IF Contains(query, table[n][1])
         THEN IF data.kind = "null" THEN Raise(NotIterable)
              ELSE IF table[n][2] \in DOMAIN data.items
                   THEN [type |-> "hit", n |-> n]
                   ELSE ProbeTable(table, n + 1, query, data)
         ELSE ProbeTable(table, n + 1, query, data)

\* A variant of _search_emergency_contacts without its closing test for a
\* general emergency query.
_search_emergency_contacts_by_keyword_only(cache, query) ==
    LET emergency_data == CategoryData(cache, "emergency_contacts")
        probe == ProbeTable(emergency_keywords, 1, query, emergency_data)
    IN  CASE probe.type = "raise" -> probe
          [] probe.type = "hit" ->
                LET keyword == emergency_keywords[probe.n][1]
                    contact_key == emergency_keywords[probe.n][2]
                IN  [type         |-> "emergency_contact",
                     service      |-> Title(keyword),
                     number       |-> emergency_data.items[contact_key],
                     availability |-> IF contact_key \in AlwaysOpen
                                      THEN "24x7" ELSE "Office hours"]
          [] OTHER -> None

_search_emergency_contacts(cache, query) ==
    LET emergency_data == CategoryData(cache, "emergency_contacts")
        probe == ProbeTable(emergency_keywords, 1, query, emergency_data)
    IN  CASE probe.type = "raise" -> probe
          [] probe.type = "hit" ->
                LET keyword == emergency_keywords[probe.n][1]
                    contact_key == emergency_keywords[probe.n][2]
                IN  [type         |-> "emergency_contact",
                     service      |-> Title(keyword),
                     number       |-> emergency_data.items[contact_key],
                     availability |-> IF contact_key \in AlwaysOpen
                                      THEN "24x7" ELSE "Office hours"]
          [] OTHER ->
                IF Contains(query, "emergency") /\ Contains(query, "all")
                THEN [type |-> "all_emergency_contacts", contacts |-> emergency_data]
                ELSE None

_search_government_contacts(cache, query) ==
    LET gov_data == CategoryData(cache, "government_contacts")
        probe == ProbeTable(gov_keywords, 1, query, gov_data)
    IN  CASE probe.type = "raise" -> probe
          [] probe.type = "hit" ->
                [type   |-> "government_contact",
                 office |-> Title(gov_keywords[probe.n][1]),
                 number |-> gov_data.items[gov_keywords[probe.n][2]],
                 timing |-> "Office hours (9:30 AM - 5:30 PM)"]
          [] OTHER -> None

_search_civic_services(cache, query) ==
    LET services_data == CategoryData(cache, "civic_services_helplines")
        probe == ProbeTable(service_keywords, 1, query, services_data)
    IN  CASE probe.type = "raise" -> probe
          [] probe.type = "hit" ->
                [type     |-> "civic_service",
                 service  |-> Title(service_keywords[probe.n][1]),
                 helpline |-> services_data.items[service_keywords[probe.n][2]],
                 timing   |-> "Office hours"]
          [] OTHER -> None

_search_zone_info(cache, query) ==
    LET zones_data == CategoryData(cache, "zone_contacts")
        probe == ProbeTable(zone_keywords, 1, query, zones_data)
    IN  CASE probe.type = "raise" -> probe
          [] probe.type = "hit" ->
                [type     |-> "zone_contact",
                 zone     |-> Title(zone_keywords[probe.n][1]),
                 contact  |-> zones_data.items[zone_keywords[probe.n][2]],
                 services |-> "Water supply, complaints, maintenance"]
          [] OTHER -> None

\* The websites branch: {k: quick_data.get(k) for k in info_key if k in
\* quick_data}, as the sequence of the <<key, url>> pairs.
RECURSIVE WebsitesOf(_, _, _)
WebsitesOf(keys, n, quick_data) ==
    IF n > Len(keys) THEN <<>>
    ELSE IF keys[n] \in DOMAIN quick_data.items
         THEN <<<<keys[n], quick_data.items[keys[n]]>>>> \o WebsitesOf(keys, n + 1, quick_data)
         ELSE WebsitesOf(keys, n + 1, quick_data)

\* The loop of _search_quick_info: an entry whose value is a list returns
\* the websites found, whatever their number; another returns when its key
\* is in quick_data.
RECURSIVE QuickInfoLoop(_, _, _)
QuickInfoLoop(n, query, quick_data) ==
    IF n > Len(info_keywords) THEN None
    ELSE LET keyword == info_keywords[n][1]
             info_key == info_keywords[n][2]
         IN  IF ~Contains(query, keyword) THEN QuickInfoLoop(n + 1, query, quick_data)
             ELSE IF quick_data.kind = "null" THEN Raise(NotIterable)
             ELSE IF info_keywords[n][3]
                  THEN [type     |-> "websites",
                        websites |-> WebsitesOf(info_key, 1, quick_data)]
                  ELSE IF info_key \in DOMAIN quick_data.items
                       THEN [type      |-> "quick_info",
                             info_type |-> Title(keyword),
                             details   |-> quick_data.items[info_key]]
                       ELSE QuickInfoLoop(n + 1, query, quick_data)

_search_quick_info(cache, query) ==
    QuickInfoLoop(1, query, CategoryData(cache, "quick_info"))

\* CAGModule.search_cache: the first coarse category with a trigger word in
\* the lower-cased query decides the table that is probed.
search_cache(cache, query) ==
    LET query_lower == Lower(query)
    IN  IF AnyIn(emergency_triggers, query_lower)
        THEN _search_emergency_contacts(cache, query_lower)
        ELSE IF AnyIn(government_triggers, query_lower)
        THEN _search_government_contacts(cache, query_lower)
        ELSE IF AnyIn(civic_triggers, query_lower)
        THEN _search_civic_services(cache, query_lower)
        ELSE IF AnyIn(zone_triggers, query_lower)
        THEN _search_zone_info(cache, query_lower)
        ELSE IF AnyIn(quick_triggers, query_lower)
        THEN _search_quick_info(cache, query_lower)
        ELSE None


(***************************************************************************)
(* CAGModule.get_response and CAGModule.format_response                    *)
(***************************************************************************)
\* The three results of a strategy's get_response: Found (success), Empty
\* (no success, a message) and Failed (no success, the error caught).
IsFound(r) == r.success
IsFailed(r) == ~r.success /\ "error" \in DOMAIN r
IsEmpty(r) == ~r.success /\ "error" \notin DOMAIN r

cag_get_response(cache, query) ==
    LET cached_result == search_cache(cache, query)
    IN  IF IsRaise(cached_result)
        THEN [success |-> FALSE, data |-> None, source |-> "CAG",
              error |-> cached_result.error]
        ELSE IF cached_result # None
        THEN [success |-> TRUE, data |-> cached_result, source |-> "CAG",
              response_time |-> "Instant",
              message |-> "Retrieved from cache: " \o cached_result.type]
        ELSE [success |-> FALSE, data |-> None, source |-> "CAG",
              message |-> "No cached information found for this query"]

\* str.replace(old, new), old not empty: the occurrences of old from the
\* left, not overlapping.
RECURSIVE Replace(_, _, _)
Replace(s, old, new) ==
    IF Len(s) < Len(old) THEN s
    ELSE IF SubSeq(s, 1, Len(old)) = old
         THEN new \o Replace(SubSeq(s, Len(old) + 1, Len(s)), old, new)
         ELSE SubSeq(s, 1, 1) \o Replace(SubSeq(s, 2, Len(s)), old, new)

\* "\n".join(lines)
RECURSIVE Join(_, _)
Join(sep, lines) ==
    IF Len(lines) = 0 THEN ""
    ELSE IF Len(lines) = 1 THEN lines[1]
    ELSE lines[1] \o sep \o Join(sep, Tail(lines))

CacheMiss ==
    "I couldn't find that information in my cache. Let me search other sources for you."

\* A variant of format_response that renders the error of a failed lookup.
cag_format_response_with_error(response_data) ==
    IF ~response_data.success
    THEN Str(IF "error" \in DOMAIN response_data
             THEN "Cache lookup failed: " \o response_data.error ELSE CacheMiss)
    ELSE LET data == response_data.data
         IN  CASE data.type = "emergency_contact" ->
                    Str("**" \o data.service \o " Emergency**\n"
                        \o "**Contact:** " \o data.number \o "\n"
                        \o "**Availability:** " \o data.availability)
               [] data.type = "government_contact" ->
                    Str("**" \o data.office \o "**\n"
                        \o "**Contact:** " \o data.number \o "\n"
                        \o "**Timing:** " \o data.timing)
               [] data.type = "civic_service" ->
                    Str("**" \o data.service \o "**\n"
                        \o "**Helpline:** " \o data.helpline \o "\n"
                        \o "**Timing:** " \o data.timing)
               [] data.type = "zone_contact" ->
                    Str("**" \o data.zone \o " Zone**\n"
                        \o "**Contact:** " \o data.contact \o "\n"
                        \o "**Services:** " \o data.services)
               [] data.type = "quick_info" ->
                    Str("**" \o data.info_type \o "**\n"
                        \o "**Details:** " \o data.details)
               [] data.type = "websites" ->
                    Str("**Official Websites:**\n"
                        \o Join("\n", [n \in 1..Len(data.websites) |->
                              "* " \o Title(Replace(data.websites[n][1], "_", " "))
                              \o ": " \o data.websites[n][2]]))
               [] data.type = "all_emergency_contacts" ->
                    IF data.contacts.kind = "null" THEN Raise(NoItems)
                    ELSE Str("**All Emergency Contacts:**\n"
                             \o Join("\n", [n \in 1..Len(data.contacts.keys) |->
                                   "* " \o Title(Replace(data.contacts.keys[n], "_", " "))
                                   \o ": " \o data.contacts.items[data.contacts.keys[n]]]))
               [] OTHER -> Str("Information retrieved from cache: ")

\* format_response: Str(text), or the exception raised.  The bullet of a
\* list line is written "*".
cag_format_response(response_data) ==
    IF ~response_data.success THEN Str(CacheMiss)
    ELSE LET data == response_data.data
         IN  CASE data.type = "emergency_contact" ->
                    Str("**" \o data.service \o " Emergency**\n"
                        \o "**Contact:** " \o data.number \o "\n"
                        \o "**Availability:** " \o data.availability)
               [] data.type = "government_contact" ->
                    Str("**" \o data.office \o "**\n"
                        \o "**Contact:** " \o data.number \o "\n"
                        \o "**Timing:** " \o data.timing)
               [] data.type = "civic_service" ->
                    Str("**" \o data.service \o "**\n"
                        \o "**Helpline:** " \o data.helpline \o "\n"
                        \o "**Timing:** " \o data.timing)
               [] data.type = "zone_contact" ->
                    Str("**" \o data.zone \o " Zone**\n"
                        \o "**Contact:** " \o data.contact \o "\n"
                        \o "**Services:** " \o data.services)
               [] data.type = "quick_info" ->
                    Str("**" \o data.info_type \o "**\n"
                        \o "**Details:** " \o data.details)
               [] data.type = "websites" ->
                    Str("**Official Websites:**\n"
                        \o Join("\n", [n \in 1..Len(data.websites) |->
                              "* " \o Title(Replace(data.websites[n][1], "_", " "))
                              \o ": " \o data.websites[n][2]]))
               [] data.type = "all_emergency_contacts" ->
                    IF data.contacts.kind = "null" THEN Raise(NoItems)
                    ELSE Str("**All Emergency Contacts:**\n"
                             \o Join("\n", [n \in 1..Len(data.contacts.keys) |->
                                   "* " \o Title(Replace(data.contacts.keys[n], "_", " "))
                                   \o ": " \o data.contacts.items[data.contacts.keys[n]]]))
               [] OTHER -> Str("Information retrieved from cache: ")

(***************************************************************************)
(* SLMModule                                                               *)
(***************************************************************************)
model == "gpt-3.5-turbo"

\* _initialize_fallback_responses: the canned responses ("*" is the bullet).
fallback_responses ==
    [greeting |-> "Hello! I'm CivicMindAI, your Chennai civic assistant. I can help you with civic services, government procedures, emergency contacts, and more. What can I assist you with today?",
     who_are_you |-> "I'm CivicMindAI, an AI-powered civic assistant specifically designed to help Chennai residents with civic issues. I use advanced AI technologies like RAG, KAG, and CAG to provide accurate and up-to-date information about municipal services, government procedures, and civic amenities.",
     capabilities |-> "I can help you with:\n* Emergency contact numbers\n* Civic service procedures (water, tax, certificates)\n* Government office information\n* Municipal service complaints\n* Zone-specific contacts\n* Latest civic updates and guidelines",
     thanks |-> "You're welcome! I'm here to help Chennai residents with civic issues anytime. Feel free to ask if you have more questions about municipal services, government procedures, or civic amenities.",
     goodbye |-> "Goodbye! Thank you for using CivicMindAI. Remember, I'm always here to help with your Chennai civic needs. Have a great day!",
     help |-> "I'm your Chennai civic assistant! You can ask me about:\n* Emergency numbers (fire, police, ambulance)\n* Water supply issues and CMWSSB services\n* Property tax payment procedures\n* Garbage collection schedules\n* Birth/death certificate applications\n* Municipal office contacts\n* And much more civic information!",
     how_it_works |-> "I use four advanced AI technologies:\n**RAG**: Searches official documents and web sources\n**KAG**: Uses knowledge graphs for step-by-step procedures\n**CAG**: Provides instant answers from cached information\n**SLM**: Handles general conversation (that's me!)\n\nI automatically choose the best method based on your question type.",
     about_chennai |-> "Chennai, the capital of Tamil Nadu, is served by several civic bodies:\n* Greater Chennai Corporation (GCC) - Municipal services\n* CMWSSB - Water supply and sewerage\n* TANGEDCO - Electricity\n* Tamil Nadu Police - Law and order\n\nI can help you interact with all these services efficiently!",
     feedback |-> "I appreciate your feedback! While I can't store it permanently, your input helps me understand how to better assist Chennai residents. If you have specific suggestions about civic services, I recommend contacting the relevant departments directly using the contact numbers I can provide.",
     default |-> "I understand you're asking about something civic-related, but I need more specific information to help you properly. Could you please ask about:\n* A specific civic service (water, tax, certificates)\n* An emergency contact number\n* A government procedure\n* A municipal office contact\n\nWhat exactly can I help you with today?"]

\* classify_query_type: the rules in the order of their if statements.
query_type_rules ==
    << <<"greeting", <<"hello", "hi", "hey", "good morning", "good afternoon",
                       "good evening">> >>,
       <<"who_are_you", <<"who are you", "what are you", "tell me about yourself",
                          "introduce yourself">> >>,
       <<"capabilities", <<"what can you do", "your capabilities",
                           "what do you help with", "services">> >>,
       <<"thanks", <<"thank", "thanks", "appreciate">> >>,
       <<"goodbye", <<"bye", "goodbye", "see you", "exit", "quit">> >>,
       <<"help", <<"help", "assist", "support", "guide">> >>,
       <<"how_it_works", <<"how do you work", "how does this work",
                           "explain your system">> >>,
       <<"about_chennai", <<"about chennai", "chennai city",
                            "tell me about chennai">> >>,
       <<"feedback", <<"feedback", "suggestion", "improve", "better">> >> >>

\* A variant of the chain of if statements in which a later rule that
\* matches overrides an earlier one.
RECURSIVE LastRule(_, _)
LastRule(n, query_lower) ==
    IF n > Len(query_type_rules) THEN "default"
    ELSE LET rest == LastRule(n + 1, query_lower)
         IN  IF rest # "default" THEN rest
             ELSE IF AnyIn(query_type_rules[n][2], query_lower)
             THEN query_type_rules[n][1]
             ELSE "default"

RECURSIVE FirstRule(_, _)
FirstRule(n, query_lower) ==
    IF n > Len(query_type_rules) THEN "default"
    ELSE IF AnyIn(query_type_rules[n][2], query_lower) THEN query_type_rules[n][1]
    ELSE FirstRule(n + 1, query_lower)

classify_query_type(query) == FirstRule(1, Lower(query))

\* What openai.ChatCompletion.create does when it is called: it returns a
\* completion whose message content is a str or None, or it raises.
Completion(content) == [type |-> "completion", content |-> content]

\* A variant of generate_openai_response without its try/except: the error
\* of the completion call reaches get_response.
generate_openai_response_raising(client_available, completion) ==
    IF ~client_available THEN None
    ELSE IF IsRaise(completion) THEN completion
    ELSE IF completion.content.type # "str" THEN None
    ELSE Str(Strip(completion.content.value))

\* generate_openai_response: None when the client is not available and on
\* every exception (of the call, or of .strip() on a content of None).
generate_openai_response(client_available, completion) ==
    IF ~client_available THEN None
    ELSE IF IsRaise(completion) THEN None
    ELSE IF completion.content.type # "str" THEN None
    ELSE Str(Strip(completion.content.value))

\* A variant of the test that takes every str, the empty one too.
TruthyWhenStr(v) == v.type = "str"

\* `if openai_response:`
Truthy(v) == v.type = "str" /\ v.value # ""

slm_get_response(client_available, completion, query) ==
    LET openai_response ==
            IF client_available
            THEN generate_openai_response(client_available, completion)
            ELSE None
        query_type == classify_query_type(query)
        fallback_response ==
            IF query_type \in DOMAIN fallback_responses
            THEN fallback_responses[query_type] ELSE fallback_responses["default"]
    IN  IF IsRaise(openai_response)
        THEN [success |-> FALSE, data |-> None, source |-> "SLM",
              error |-> openai_response.error]
        ELSE IF client_available /\ Truthy(openai_response)
        THEN [success |-> TRUE,
              data |-> [response |-> openai_response.value,
                        method |-> "OpenAI API", model |-> model],
              source |-> "SLM", query |-> query,
              message |-> "Response generated using " \o model]
        ELSE [success |-> TRUE,
              data |-> [response |-> fallback_response,
                        method |-> "Fallback Response", query_type |-> query_type],
              source |-> "SLM", query |-> query,
              message |-> "Fallback response for query type: " \o query_type]

SlmApology ==
    "I apologize, but I'm having trouble processing your request right now. Please try asking about specific civic services, and I'll do my best to help!"

\* The time of day in the footer is written HH:MM:SS.
slm_format_response(response_data) ==
    IF ~response_data.success THEN Str(SlmApology)
    ELSE LET data == response_data.data
             footer ==
                IF data.method = "OpenAI API"
                THEN "\n\n*Response generated via " \o data.model \o " at HH:MM:SS*"
                ELSE "\n\n*Predefined response for " \o data.query_type \o " query*"
         IN  Str(data.response \o footer)


(***************************************************************************)
(* RAGModule: search_documents, search_web, get_response, format_response  *)
(***************************************************************************)
\* What self.index.search(query_embedding, top_k) returns for the opaque
\* embeddings: top_k <<score, index>> pairs, the index 0-based and -1 where
\* the index holds fewer than top_k vectors; or the embedding model raises.
FaissHits(pairs) == [type |-> "hits", pairs |-> pairs]

\* self.documents[idx] for a Python index idx < len(documents): a negative
\* index counts from the end.
PyIndex(documents, idx) ==
    IF idx >= 0 THEN documents[idx + 1] ELSE documents[Len(documents) + idx + 1]

RECURSIVE HitLoop(_, _, _)
HitLoop(documents, pairs, i) ==
    IF i > Len(pairs) THEN <<>>
    ELSE IF pairs[i][2] < Len(documents)
         THEN <<[id       |-> PyIndex(documents, pairs[i][2]).id,
                 content  |-> PyIndex(documents, pairs[i][2]).content,
                 source   |-> PyIndex(documents, pairs[i][2]).source,
                 chunk_id |-> PyIndex(documents, pairs[i][2]).chunk_id,
                 score    |-> pairs[i][1],
                 rank     |-> i]>> \o HitLoop(documents, pairs, i + 1)
         ELSE HitLoop(documents, pairs, i + 1)

\* search_documents: [] without an index or documents, and on any exception.
search_documents(documents, index, hits) ==
    IF ~index \/ Len(documents) = 0 THEN <<>>
    ELSE IF IsRaise(hits) THEN <<>>
    ELSE HitLoop(documents, hits.pairs, 1)

\* self.documents after search_documents.  The loop sets 'score' and 'rank'
\* on doc, which is a copy of the chunk (.copy()) when copied, and the chunk
\* itself when not.
RECURSIVE StoreLoop(_, _, _, _)
StoreLoop(documents, pairs, i, copied) ==
    IF i > Len(pairs) THEN documents
    ELSE IF pairs[i][2] < Len(documents) /\ ~copied
    THEN LET at  == IF pairs[i][2] >= 0 THEN pairs[i][2] + 1
                    ELSE Len(documents) + pairs[i][2] + 1
             doc == [f \in DOMAIN documents[at] \cup {"score", "rank"} |->
                        IF f = "score" THEN pairs[i][1]
                        ELSE IF f = "rank" THEN i
                        ELSE documents[at][f]]
         IN  StoreLoop([documents EXCEPT ![at] = doc], pairs, i + 1, copied)
    ELSE StoreLoop(documents, pairs, i + 1, copied)

\* A variant of search_documents that sets 'score' and 'rank' on the chunk
\* itself.
documents_after_search_in_place(documents, index, hits) ==
    IF ~index \/ Len(documents) = 0 \/ IsRaise(hits) THEN documents
    ELSE StoreLoop(documents, hits.pairs, 1, FALSE)

documents_after_search(documents, index, hits) ==
    IF ~index \/ Len(documents) = 0 \/ IsRaise(hits) THEN documents
    ELSE StoreLoop(documents, hits.pairs, 1, TRUE)


\* The three simulated results; relevance_score 0.85 is kept in hundredths.
RelevanceScore == 85

mock_results(query) ==
    << [title   |-> "Chennai Corporation Latest Updates - October 2025",
        url     |-> "https://chennaicorporation.gov.in/latest-updates",
        content |-> "Recent updates on " \o query
                    \o " in Chennai. New initiatives launched for better civic services.",
        source  |-> "Chennai Corporation Official",
        date    |-> "2025-10-04"],
       [title   |-> "CMWSSB News: " \o query \o " Services Enhanced",
        url     |-> "https://cmwssb.tn.gov.in/news",
        content |-> "Chennai Metro Water board announces improvements in " \o query
                    \o " related services across the city.",
        source  |-> "CMWSSB Official",
        date    |-> "2025-10-03"],
       [title   |-> "Tamil Nadu Government Portal - " \o query,
        url     |-> "https://tn.gov.in/citizen-services",
        content |-> "Official government guidelines and procedures for " \o query
                    \o " in Tamil Nadu.",
        source  |-> "TN Government",
        date    |-> "2025-10-02"] >>

MinInt(a, b) == IF a <= b THEN a ELSE b

\* s[:n]
Prefix(s, n) == SubSeq(s, 1, MinInt(n, Len(s)))

search_web(query, num_results) ==
    [n \in 1..Len(Prefix(mock_results(query), num_results)) |->
        [title           |-> mock_results(query)[n].title,
         url             |-> mock_results(query)[n].url,
         content         |-> mock_results(query)[n].content,
         source          |-> mock_results(query)[n].source,
         date            |-> mock_results(query)[n].date,
         relevance_score |-> RelevanceScore]]

LocalTopK == 3
WebResults == 2

\* A variant of get_response that reports success only when both searches
\* found something.
rag_get_response_requiring_both(documents, index, hits, query) ==
    LET doc_results == search_documents(documents, index, hits)
        web_results == search_web(query, WebResults)
        all_results == [documents     |-> doc_results,
                        web_sources   |-> web_results,
                        total_sources |-> Len(doc_results) + Len(web_results)]
    IN  IF Len(doc_results) > 0 /\ Len(web_results) > 0
        THEN [success |-> TRUE, data |-> all_results, source |-> "RAG",
              query |-> query,
              message |-> "Found " \o ToString(all_results.total_sources)
                          \o " relevant sources"]
        ELSE [success |-> FALSE, data |-> None, source |-> "RAG", query |-> query,
              message |-> "No relevant documents or web sources found"]

rag_get_response(documents, index, hits, query) ==
    LET doc_results == search_documents(documents, index, hits)
        web_results == search_web(query, WebResults)
        all_results == [documents     |-> doc_results,
                        web_sources   |-> web_results,
                        total_sources |-> Len(doc_results) + Len(web_results)]
    IN  IF Len(doc_results) > 0 \/ Len(web_results) > 0
        THEN [success |-> TRUE, data |-> all_results, source |-> "RAG",
              query |-> query,
              message |-> "Found " \o ToString(all_results.total_sources)
                          \o " relevant sources"]
        ELSE [success |-> FALSE, data |-> None, source |-> "RAG", query |-> query,
              message |-> "No relevant documents or web sources found"]

PreviewLen == 200
ShownSources == 2

\* The time of day in the footer is written HH:MM:SS.
rag_format_response(response_data) ==
    IF ~response_data.success
    THEN Str("I couldn't find recent information about '"
             \o (IF "query" \in DOMAIN response_data
                 THEN response_data.query ELSE "your request")
             \o "'. Let me try other sources.")
    ELSE LET data == response_data.data
             docs == Prefix(data.documents, ShownSources)
             webs == Prefix(data.web_sources, ShownSources)
             doc_line(doc) ==
                "* **" \o Title(Replace(Replace(doc.source, ".txt", ""), "_", " "))
                \o "**: "
                \o (IF Len(doc.content) > PreviewLen
                    THEN Prefix(doc.content, PreviewLen) \o "..." ELSE doc.content)
                \o "\n\n"
             web_line(web) ==
                "* **" \o web.title \o "** (" \o web.date \o ")\n"
                \o "  " \o web.content \o "\n"
                \o "  *Source: " \o web.source \o "*\n\n"
         IN  Str("**Latest Information Found (" \o ToString(data.total_sources)
                 \o " sources):**\n\n"
                 \o (IF Len(data.documents) > 0
                     THEN "**From Official Documents:**\n"
                          \o Join("", [n \in 1..Len(docs) |-> doc_line(docs[n])])
                     ELSE "")
                 \o (IF Len(data.web_sources) > 0
                     THEN "**Recent Online Updates:**\n"
                          \o Join("", [n \in 1..Len(webs) |-> web_line(webs[n])])
                     ELSE "")
                 \o "*Retrieved via RAG system at HH:MM:SS*")


(***************************************************************************)
(* RAGModule._split_document                                               *)
(***************************************************************************)
\* str.split(sep), sep not empty: the pieces between the occurrences of sep
\* from the left, not overlapping.
RECURSIVE Split(_, _)
Split(s, sep) ==
    LET at == {i \in 1..(Len(s) - Len(sep) + 1) : SubSeq(s, i, i + Len(sep) - 1) = sep}
    IN  IF at = {} THEN <<s>>
        ELSE LET i == CHOOSE j \in at : \A k \in at : j <= k
             IN  <<SubSeq(s, 1, i - 1)>> \o Split(SubSeq(s, i + Len(sep), Len(s)), sep)

ChunkSize == 500

\* A variant of the chunk whose id is the file name alone.
ChunkNamedByFile(filename, chunk_id, current_chunk) ==
    [id       |-> filename,
     content  |-> Strip(current_chunk),
     source   |-> filename,
     chunk_id |-> chunk_id]

\* A chunk of a document; its timestamp is left out.
Chunk(filename, chunk_id, current_chunk) ==
    [id       |-> filename \o "_" \o ToString(chunk_id),
     content  |-> Strip(current_chunk),
     source   |-> filename,
     chunk_id |-> chunk_id]

\* The loop over the paragraphs from the n-th on, and the last chunk.
RECURSIVE ChunkLoop(_, _, _, _, _, _)
ChunkLoop(paragraphs, n, current_chunk, chunk_id, filename, chunk_size) ==
    IF n > Len(paragraphs)
    THEN IF Strip(current_chunk) # ""
         THEN <<Chunk(filename, chunk_id, current_chunk)>>
         ELSE <<>>
    ELSE IF Len(current_chunk \o paragraphs[n]) < chunk_size
    THEN ChunkLoop(paragraphs, n + 1, current_chunk \o paragraphs[n] \o "\n\n",
                   chunk_id, filename, chunk_size)
    ELSE IF Strip(current_chunk) # ""
    THEN <<Chunk(filename, chunk_id, current_chunk)>>
         \o ChunkLoop(paragraphs, n + 1, paragraphs[n] \o "\n\n",
                      chunk_id + 1, filename, chunk_size)
    ELSE ChunkLoop(paragraphs, n + 1, paragraphs[n] \o "\n\n",
                   chunk_id, filename, chunk_size)

_split_document(content, filename, chunk_size) ==
    ChunkLoop(Split(content, "\n\n"), 1, "", 0, filename, chunk_size)


(***************************************************************************)
(* The knowledge snapshot data/civic_knowledge.json.  A fee is kept as     *)
(* str() renders it, the only way the program reads it.                    *)
(***************************************************************************)
civic_knowledge ==
    [entities |->
       [departments |-> <<
            [id |-> "gcc", name |-> "Greater Chennai Corporation", type |-> "government"],
            [id |-> "cmwssb", name |-> "Chennai Metro Water Supply and Sewerage Board",
             type |-> "government"],
            [id |-> "tneb", name |-> "Tamil Nadu Electricity Board", type |-> "government"],
            [id |-> "tn_police", name |-> "Tamil Nadu Police", type |-> "government"],
            [id |-> "fire_dept", name |-> "Fire Department", type |-> "emergency"],
            [id |-> "health_dept", name |-> "Health Department", type |-> "government"] >>,
        services |-> <<
            [id |-> "water_supply", name |-> "Water Supply", department |-> "cmwssb"],
            [id |-> "sewage", name |-> "Sewage Management", department |-> "cmwssb"],
            [id |-> "property_tax", name |-> "Property Tax", department |-> "gcc"],
            [id |-> "waste_mgmt", name |-> "Waste Management", department |-> "gcc"],
            [id |-> "street_lights", name |-> "Street Lighting", department |-> "gcc"],
            [id |-> "roads", name |-> "Road Maintenance", department |-> "gcc"],
            [id |-> "electricity", name |-> "Electricity", department |-> "tneb"],
            [id |-> "birth_cert", name |-> "Birth Certificate", department |-> "gcc"],
            [id |-> "death_cert", name |-> "Death Certificate", department |-> "gcc"] >>,
        issues |-> <<
            [id |-> "no_water", name |-> "No Water Supply", service |-> "water_supply"],
            [id |-> "water_contamination", name |-> "Water Contamination",
             service |-> "water_supply"],
            [id |-> "pipeline_leak", name |-> "Pipeline Leak", service |-> "water_supply"],
            [id |-> "sewage_overflow", name |-> "Sewage Overflow", service |-> "sewage"],
            [id |-> "blocked_drain", name |-> "Blocked Drain", service |-> "sewage"],
            [id |-> "garbage_not_collected", name |-> "Garbage Not Collected",
             service |-> "waste_mgmt"],
            [id |-> "street_light_not_working", name |-> "Street Light Not Working",
             service |-> "street_lights"],
            [id |-> "pothole", name |-> "Pothole on Road", service |-> "roads"],
            [id |-> "power_cut", name |-> "Power Cut", service |-> "electricity"] >>],
     procedures |-> Dict(<<
        <<"water_connection_new",
          [title |-> "Apply for New Water Connection",
           department |-> "cmwssb",
           steps |-> << "Visit CMWSSB website or nearest office",
                        "Fill Form No. 1 (New Connection Application)",
                        "Submit required documents: Property tax receipt, ID proof, Address proof",
                        "Pay connection charges: 1,500 for 15mm, 2,500 for 20mm",
                        "Schedule site inspection",
                        "Connection provided within 15 working days" >>,
           documents |-> << "Property tax receipt", "ID proof", "Address proof",
                            "Property ownership documents" >>,
           fees |-> "{'15mm': 1500, '20mm': 2500, '25mm': 4000}",
           timeline |-> "15 working days",
           contact |-> "044-28451300"]>>,
        <<"property_tax_payment",
          [title |-> "Pay Property Tax Online",
           department |-> "gcc",
           steps |-> << "Visit Chennai Corporation website",
                        "Click on 'Online Services' 'Property Tax'",
                        "Enter Property Assessment Number or search by owner name",
                        "Verify property details",
                        "Select payment method (Net Banking/Card/UPI)",
                        "Make payment and download receipt" >>,
           documents |-> << "Property Assessment Number", "Mobile number for OTP" >>,
           fees |-> "As per assessment",
           timeline |-> "Immediate",
           contact |-> "1913"]>>,
        <<"street_light_repair",
          [title |-> "Report Street Light Not Working",
           department |-> "gcc",
           steps |-> << "Call Chennai Corporation helpline: 1913",
                        "Provide exact location details",
                        "Note complaint reference number",
                        "Track status online or via phone",
                        "Follow up if not resolved in 3 days" >>,
           documents |-> << "Location details" >>,
           fees |-> "Free",
           timeline |-> "3-5 working days",
           contact |-> "1913"]>>,
        <<"birth_certificate",
          [title |-> "Apply for Birth Certificate",
           department |-> "gcc",
           steps |-> << "Visit Chennai Corporation citizen portal",
                        "Fill online application with child details",
                        "Upload hospital birth certificate",
                        "Upload parents' ID proofs",
                        "Pay online fees 15",
                        "Download certificate or collect from office" >>,
           documents |-> << "Hospital birth certificate", "Parents' ID proof",
                            "Address proof" >>,
           fees |-> "15",
           timeline |-> "Immediate (online) or 3 days (office)",
           contact |-> "044-25384680"]>> >>),
     relationships |-> <<
        [from |-> "no_water", to |-> "cmwssb", type |-> "handled_by"],
        [from |-> "water_contamination", to |-> "cmwssb", type |-> "handled_by"],
        [from |-> "pipeline_leak", to |-> "cmwssb", type |-> "handled_by"],
        [from |-> "sewage_overflow", to |-> "cmwssb", type |-> "handled_by"],
        [from |-> "blocked_drain", to |-> "cmwssb", type |-> "handled_by"],
        [from |-> "garbage_not_collected", to |-> "gcc", type |-> "handled_by"],
        [from |-> "street_light_not_working", to |-> "gcc", type |-> "handled_by"],
        [from |-> "pothole", to |-> "gcc", type |-> "handled_by"],
        [from |-> "power_cut", to |-> "tneb", type |-> "handled_by"],
        [from |-> "water_supply", to |-> "water_connection_new", type |-> "procedure"],
        [from |-> "property_tax", to |-> "property_tax_payment", type |-> "procedure"],
        [from |-> "street_lights", to |-> "street_light_repair", type |-> "procedure"],
        [from |-> "birth_cert", to |-> "birth_certificate", type |-> "procedure"] >>]

(***************************************************************************)
(* KAGModule: the directed graph and build_knowledge_graph                 *)
(***************************************************************************)
\* dict.get(key, default) on a JSON object read as a record.
Get(d, key, default) == IF key \in DOMAIN d THEN d[key] ELSE default

\* The add_node and add_edge calls that the loops of build_knowledge_graph
\* make, in the order in which they make them.
NodeCall(n, attrs) == [op |-> "add_node", n |-> n, attrs |-> attrs]
EdgeCall(u, v, relation) == [op |-> "add_edge", u |-> u, v |-> v, relation |-> relation]

DepartmentCalls(departments) ==
    [i \in 1..Len(departments) |->
        NodeCall(departments[i].id,
                 [name |-> departments[i].name, type |-> "department",
                  node_type |-> departments[i].type])]

\* Each service: its node, then the edge to its department.
ServiceCalls(services) ==
    [k \in 1..(2 * Len(services)) |->
        LET service == services[(k + 1) \div 2]
        IN  IF k % 2 = 1
            THEN NodeCall(service.id,
                          [name |-> service.name, type |-> "service",
                           department |-> service.department])
            ELSE EdgeCall(service.id, service.department, "managed_by")]

\* Each issue: its node, then the edge to its service.
IssueCalls(issues) ==
    [k \in 1..(2 * Len(issues)) |->
        LET issue == issues[(k + 1) \div 2]
        IN  IF k % 2 = 1
            THEN NodeCall(issue.id,
                          [name |-> issue.name, type |-> "issue",
                           service |-> issue.service])
            ELSE EdgeCall(issue.id, issue.service, "relates_to")]

ProcedureCalls(procedures) ==
    [i \in 1..Len(procedures.keys) |->
        LET proc_id   == procedures.keys[i]
            proc_data == procedures.items[proc_id]
        IN  NodeCall(proc_id,
                     [name |-> proc_data.title, type |-> "procedure",
                      department |-> proc_data.department,
                      steps |-> proc_data.steps,
                      timeline |-> Get(proc_data, "timeline", "Unknown"),
                      fees |-> Get(proc_data, "fees", "N/A"),
                      contact |-> Get(proc_data, "contact", "N/A")])]

RelationshipCalls(relationships) ==
    [i \in 1..Len(relationships) |->
        EdgeCall(relationships[i].from, relationships[i].to, relationships[i].type)]

GraphCalls(knowledge_data) ==
    LET entities == Get(knowledge_data, "entities", <<>>)
    IN  DepartmentCalls(Get(entities, "departments", <<>>))
        \o ServiceCalls(Get(entities, "services", <<>>))
        \o IssueCalls(Get(entities, "issues", <<>>))
        \o ProcedureCalls(Get(knowledge_data, "procedures", EmptyDict))
        \o RelationshipCalls(Get(knowledge_data, "relationships", <<>>))

\* The smallest member of a set of integers.
Least(S) == CHOOSE i \in S : \A j \in S : i <= j

\* The r-th smallest member of a set of integers.
NthSmallest(S, r) == CHOOSE i \in S : Cardinality({j \in S : j < i}) = r - 1

\* nx.DiGraph() after the calls: a node exists from the first call that
\* names it (add_edge creates a missing endpoint without attributes, u before
\* v), a later add_node of the same node updates its attributes, and a
\* node's successors are kept in the order in which their edges were added.
DiGraph(calls) ==
    LET \* the node named at each step: call k names its nodes at 2k-1 and 2k
        touched == [t \in 1..(2 * Len(calls)) |->
            LET call == calls[(t + 1) \div 2]
            IN  IF call.op = "add_node" THEN call.n
                ELSE IF t % 2 = 1 THEN call.u ELSE call.v]
        created == {t \in DOMAIN touched :
                        \A s \in 1..(t - 1) : touched[s] # touched[t]}
        ids == {touched[t] : t \in created}
        node_calls(n) == {k \in DOMAIN calls : calls[k].op = "add_node" /\ calls[k].n = n}
        attr_keys(n)  == UNION {DOMAIN calls[k].attrs : k \in node_calls(n)}
        last_call(n, a) ==
            CHOOSE k \in node_calls(n) :
                /\ a \in DOMAIN calls[k].attrs
                /\ \A m \in node_calls(n) : a \in DOMAIN calls[m].attrs => m <= k
        edge_calls(u) == {k \in DOMAIN calls : calls[k].op = "add_edge" /\ calls[k].u = u}
        added(u) == {k \in edge_calls(u) :
                        \A m \in edge_calls(u) : m < k => calls[m].v # calls[k].v}
    IN  [nodes |-> [r \in 1..Cardinality(created) |-> touched[NthSmallest(created, r)]],
         attrs |-> [n \in ids |->
                      [a \in attr_keys(n) |-> calls[last_call(n, a)].attrs[a]]],
         succ  |-> [u \in ids |->
                      [r \in 1..Cardinality(added(u)) |->
                          calls[NthSmallest(added(u), r)].v]]]

HasNode(graph, n) == n \in DOMAIN graph.attrs

successors(graph, n) == graph.succ[n]

number_of_nodes(graph) == Len(graph.nodes)

number_of_edges(graph) ==
    Cardinality({<<u, i>> \in (DOMAIN graph.succ) \X (1..Len(graph.nodes)) :
                    i <= Len(graph.succ[u])})

build_knowledge_graph(knowledge_data) == DiGraph(GraphCalls(knowledge_data))

(***************************************************************************)
(* KAGModule: find_procedure, find_responsible_department,                 *)
(* multi_hop_reasoning, get_response, format_response                      *)
(***************************************************************************)
procedure_keywords ==
    << <<"water connection", "water_connection_new">>,
       <<"new water connection", "water_connection_new">>,
       <<"apply water", "water_connection_new">>,
       <<"property tax", "property_tax_payment">>,
       <<"pay tax", "property_tax_payment">>,
       <<"tax payment", "property_tax_payment">>,
       <<"street light", "street_light_repair">>,
       <<"light repair", "street_light_repair">>,
       <<"street lamp", "street_light_repair">>,
       <<"birth certificate", "birth_certificate">>,
       <<"birth cert", "birth_certificate">> >>

KeyError(key) == "'" \o key \o "'"

RECURSIVE ProcedureLoop(_, _, _, _)
ProcedureLoop(knowledge_data, graph, query_lower, n) ==
    IF n > Len(procedure_keywords) THEN None
    ELSE LET proc_id    == procedure_keywords[n][2]
             procedures == Get(knowledge_data, "procedures", EmptyDict)
         IN  IF /\ Contains(query_lower, procedure_keywords[n][1])
                /\ HasNode(graph, proc_id)
                /\ proc_id \in DOMAIN procedures.items
             THEN IF "name" \notin DOMAIN graph.attrs[proc_id]
                  THEN Raise(KeyError("name"))
                  ELSE IF "department" \notin DOMAIN graph.attrs[proc_id]
                  THEN Raise(KeyError("department"))
                  ELSE [procedure_id |-> proc_id,
                        title        |-> graph.attrs[proc_id].name,
                        department   |-> graph.attrs[proc_id].department,
                        details      |-> procedures.items[proc_id]]
             ELSE ProcedureLoop(knowledge_data, graph, query_lower, n + 1)

find_procedure(knowledge_data, graph, query) ==
    ProcedureLoop(knowledge_data, graph, Lower(query), 1)

\* issue_keywords, one <<keyword, issue_id>> pair per step of the two loops.
issue_keywords ==
    << <<"water", "no_water">>, <<"water", "water_contamination">>,
       <<"water", "pipeline_leak">>,
       <<"sewage", "sewage_overflow">>, <<"sewage", "blocked_drain">>,
       <<"garbage", "garbage_not_collected">>,
       <<"waste", "garbage_not_collected">>,
       <<"street light", "street_light_not_working">>,
       <<"road", "pothole">>,
       <<"electricity", "power_cut">>,
       <<"power", "power_cut">> >>

\* [n for n in successors(node) if nodes[n]['type'] == type]: the list, or
\* the KeyError of a successor that has no 'type'.
TypedSuccessors(graph, node, type) ==
    IF \E i \in 1..Len(successors(graph, node)) :
            "type" \notin DOMAIN graph.attrs[successors(graph, node)[i]]
    THEN Raise(KeyError("type"))
    ELSE [type  |-> "list",
          value |-> SelectSeq(successors(graph, node),
                              LAMBDA n : graph.attrs[n].type = type)]

\* A variant of the try block that answers with what it has when the
\* department cannot be reached.
TraverseIssueAsFarAsItGoes(graph, issue_id) ==
    LET service_nodes == TypedSuccessors(graph, issue_id, "service")
    IN  IF IsRaise(service_nodes) THEN service_nodes
        ELSE IF Len(service_nodes.value) = 0 THEN None
        ELSE LET service_id == service_nodes.value[1]
                 dept_nodes == TypedSuccessors(graph, service_id, "department")
             IN  IF IsRaise(dept_nodes) \/ Len(dept_nodes.value) = 0
                 THEN [issue_id     |-> issue_id,
                       service_id   |-> service_id,
                       service_name |-> graph.attrs[service_id].name]
                 ELSE [issue_id        |-> issue_id,
                       issue_name      |-> graph.attrs[issue_id].name,
                       service_id      |-> service_id,
                       service_name    |-> graph.attrs[service_id].name,
                       department_id   |-> dept_nodes.value[1],
                       department_name |-> graph.attrs[dept_nodes.value[1]].name]

\* The body of the try block for one issue node: the department record,
\* nothing found, or an exception (which the loop logs and skips).
TraverseIssue(graph, issue_id) ==
    LET service_nodes == TypedSuccessors(graph, issue_id, "service")
    IN  IF IsRaise(service_nodes) THEN service_nodes
        ELSE IF Len(service_nodes.value) = 0 THEN None
        ELSE LET service_id == service_nodes.value[1]
                 dept_nodes == TypedSuccessors(graph, service_id, "department")
             IN  IF IsRaise(dept_nodes) THEN dept_nodes
                 ELSE IF Len(dept_nodes.value) = 0 THEN None
                 ELSE LET dept_id == dept_nodes.value[1]
                      IN  IF "name" \notin DOMAIN graph.attrs[issue_id]
                          THEN Raise(KeyError("name"))
                          ELSE [issue_id        |-> issue_id,
                                issue_name      |-> graph.attrs[issue_id].name,
                                service_id      |-> service_id,
                                service_name    |-> graph.attrs[service_id].name,
                                department_id   |-> dept_id,
                                department_name |-> graph.attrs[dept_id].name]

RECURSIVE IssueLoop(_, _, _)
IssueLoop(graph, issue_lower, n) ==
    IF n > Len(issue_keywords) THEN None
    ELSE IF /\ Contains(issue_lower, issue_keywords[n][1])
            /\ HasNode(graph, issue_keywords[n][2])
         THEN LET found == TraverseIssue(graph, issue_keywords[n][2])
              IN  IF found = None \/ IsRaise(found)
                  THEN IssueLoop(graph, issue_lower, n + 1)
                  ELSE found
         ELSE IssueLoop(graph, issue_lower, n + 1)

find_responsible_department(graph, issue) == IssueLoop(graph, Lower(issue), 1)

multi_hop_reasoning(query) ==
    LET query_lower == Lower(query)
    IN  IF /\ Contains(query_lower, "repair")
           /\ (Contains(query_lower, "water") \/ Contains(query_lower, "pipeline"))
        THEN << [step |-> 1, action |-> "Identify Issue",
                 result |-> "Water pipeline repair needed", node |-> "pipeline_leak"],
                [step |-> 2, action |-> "Find Responsible Service",
                 result |-> "Water Supply Service", node |-> "water_supply"],
                [step |-> 3, action |-> "Find Responsible Department",
                 result |-> "Chennai Metro Water Supply and Sewerage Board (CMWSSB)",
                 node |-> "cmwssb"],
                [step |-> 4, action |-> "Get Contact Information",
                 result |-> "Call CMWSSB complaint cell: 044-45674567",
                 details |-> "Available 24x7 for emergency repairs"] >>
             \o (IF Contains(query_lower, "anna nagar")
                 THEN << [step |-> 5, action |-> "Area-specific Contact",
                          result |-> "Anna Nagar falls under North Zone",
                          details |-> "Zone contact: 044-28451300 Ext.233"] >>
                 ELSE <<>>)
        ELSE IF /\ Contains(query_lower, "property tax")
                /\ (Contains(query_lower, "pay") \/ Contains(query_lower, "how"))
        THEN << [step |-> 1, action |-> "Identify Service",
                 result |-> "Property Tax Payment", node |-> "property_tax"],
                [step |-> 2, action |-> "Find Department",
                 result |-> "Greater Chennai Corporation (GCC)", node |-> "gcc"],
                [step |-> 3, action |-> "Get Procedure",
                 result |-> "Online payment procedure available",
                 node |-> "property_tax_payment"] >>
        ELSE <<>>

kag_get_response(knowledge_data, graph, query) ==
    LET procedure       == find_procedure(knowledge_data, graph, query)
        department_info == find_responsible_department(graph, query)
        reasoning_steps == multi_hop_reasoning(query)
    IN  IF IsRaise(procedure)
        THEN [success |-> FALSE, data |-> None, source |-> "KAG",
              error |-> procedure.error]
        ELSE IF procedure # None \/ department_info # None \/ Len(reasoning_steps) > 0
        THEN [success |-> TRUE,
              data |-> [procedure       |-> procedure,
                        department_info |-> department_info,
                        reasoning_steps |-> reasoning_steps,
                        graph_stats     |-> [nodes |-> number_of_nodes(graph),
                                             edges |-> number_of_edges(graph)]],
              source |-> "KAG", query |-> query,
              message |-> "Knowledge graph reasoning completed with "
                          \o ToString(Len(reasoning_steps)) \o " steps"]
        ELSE [success |-> FALSE, data |-> None, source |-> "KAG", query |-> query,
              message |-> "No structured knowledge found for this query"]

\* str.upper()
RECURSIVE Upper(_)
Upper(s) ==
    IF Len(s) = 0 THEN ""
    ELSE IF Len(s) = 1 THEN UpperChar(s)
    ELSE Upper(SubSeq(s, 1, Len(s) \div 2))
         \o Upper(SubSeq(s, Len(s) \div 2 + 1, Len(s)))

kag_format_response(response_data) ==
    IF ~response_data.success
    THEN Str("I don't have structured knowledge about '"
             \o (IF "query" \in DOMAIN response_data
                 THEN response_data.query ELSE "your request")
             \o "'. Let me try other sources.")
    ELSE LET data == response_data.data
             step_line(step) ==
                ToString(step.step) \o ". **" \o step.action \o ":** "
                \o step.result \o "\n"
                \o (IF "details" \in DOMAIN step
                    THEN "   *" \o step.details \o "*\n" ELSE "")
             proc    == data.procedure
             details == proc.details
             dept    == data.department_info
         IN  Str("**Knowledge Graph Analysis:**\n\n"
                 \o (IF Len(data.reasoning_steps) > 0
                     THEN "**Step-by-step Reasoning:**\n"
                          \o Join("", [n \in 1..Len(data.reasoning_steps) |->
                                          step_line(data.reasoning_steps[n])])
                          \o "\n"
                     ELSE "")
                 \o (IF proc # None
                     THEN "**Procedure: " \o proc.title \o "**\n"
                          \o "**Department:** " \o Upper(proc.department) \o "\n\n"
                          \o "**Steps to Follow:**\n"
                          \o Join("", [n \in 1..Len(details.steps) |->
                                          ToString(n) \o ". " \o details.steps[n] \o "\n"])
                          \o "\n**Timeline:** " \o details.timeline \o "\n"
                          \o "**Fees:** " \o Get(details, "fees", "N/A") \o "\n"
                          \o "**Contact:** " \o details.contact \o "\n\n"
                          \o (IF "documents" \in DOMAIN details
                              THEN "**Required Documents:**\n"
                                   \o Join("", [n \in 1..Len(details.documents) |->
                                                   "* " \o details.documents[n] \o "\n"])
                                   \o "\n"
                              ELSE "")
                     ELSE "")
                 \o (IF dept # None
                     THEN "**Responsible Department:**\n"
                          \o "* **Issue:** " \o dept.issue_name \o "\n"
                          \o "* **Service:** " \o dept.service_name \o "\n"
                          \o "* **Department:** " \o dept.department_name \o "\n\n"
                     ELSE "")
                 \o "*Processed via Knowledge Graph ("
                 \o ToString(data.graph_stats.nodes) \o " entities, "
                 \o ToString(data.graph_stats.edges) \o " relationships)*")

(***************************************************************************)
(* The inputs of the specifications: queries, the snapshots the modules    *)
(* were loaded from, and what the collaborators answer                     *)
(***************************************************************************)
QueryPhrases ==
    << "Fire emergency number", "property tax helpline", "website",
       "all emergency contacts", "latest", "schedule", "how to",
       "repair water pipeline", "how to get water pipeline repaired", "Hello",
       "this", "xyz" >>

\* The queries made of exactly n phrases, and of at most n.
RECURSIVE PhraseQueries(_)
PhraseQueries(n) ==
    IF n = 0 THEN {""}
    ELSE {IF q = "" THEN QueryPhrases[p] ELSE q \o " " \o QueryPhrases[p] :
             q \in PhraseQueries(n - 1), p \in DOMAIN QueryPhrases}

QueriesUpTo(n) == UNION {PhraseQueries(k) : k \in 0..n}

MaxQueryWords == 2
Queries == QueriesUpTo(MaxQueryWords)

MaxRouteWords == 1
RouteQueries == QueriesUpTo(MaxRouteWords)

\* civic_cache.json as written by the repository, a file holding {} (also
\* what a missing file leaves), one with two categories null, and one that
\* lacks the keys 'fire' and 'corporation_office_hours'.
EmptyCache == <<>>
NullCache ==
    [civic_cache EXCEPT !.emergency_contacts = JsonNull, !.quick_info = JsonNull]
PartialCache ==
    [civic_cache EXCEPT
        !.emergency_contacts = Dict(<< <<"police", "100">>, <<"ambulance", "108">> >>),
        !.quick_info = Dict(<< <<"garbage_collection", "Daily 6 AM to 10 AM">>,
                               <<"cmwssb_website", "https://cmwssb.tn.gov.in">> >>)]
CacheSnapshots == <<civic_cache, EmptyCache, NullCache, PartialCache>>

\* The queries put to the cache module alone: those above, and two that hold
\* two keywords of one table.
CacheQueries ==
    Queries \cup {"fire and police number", "garbage timing website"}

KnowledgeSnapshots == <<civic_knowledge>>

\* Snapshots whose edges name undeclared nodes: the first issue with a
\* service that is not declared, the first service with a department that is
\* not declared, and one that declares no issue, so that the issues exist
\* only as the ends of its relationships.
UndeclaredService ==
    [civic_knowledge EXCEPT !.entities.issues[1].service = "water_board"]
UndeclaredDepartment ==
    [civic_knowledge EXCEPT !.entities.services[1].department = "metro_water"]
UndeclaredIssues ==
    [civic_knowledge EXCEPT !.entities.issues = <<>>]
KnowledgeVariants ==
    <<civic_knowledge, UndeclaredService, UndeclaredDepartment, UndeclaredIssues>>

\* The queries put to the graph module alone.
KagQueries ==
    { "water", "no water supply", "sewage overflow", "garbage not collected",
      "street light not working", "power cut", "xyz", "",
      "repair water pipeline", "How to get water pipeline repaired in Anna Nagar?",
      "repair pipeline in adyar", "how to pay property tax",
      "property tax in anna nagar how", "repair road" }

\* The chunks _split_document makes of water_supply_guidelines.txt.
water_supply_chunks ==
    << [id       |-> "water_supply_guidelines.txt_0",
        content  |-> "CHENNAI METRO WATER SUPPLY AND SEWERAGE BOARD\nWater Supply Guidelines - October 2025\n\nWATER SUPPLY TIMINGS:\n- Morning: 6:00 AM to 8:00 AM  \n- Evening: 6:00 PM to 8:00 PM\n- Total supply duration: 4 hours per day",
        source   |-> "water_supply_guidelines.txt",
        chunk_id |-> 0],
       [id       |-> "water_supply_guidelines.txt_1",
        content  |-> "ZONE WISE WATER SUPPLY:\nZone 1 (North): Anna Nagar, Kilpauk, Purasawalkam\nZone 2 (North East): Royapuram, Thiruvottiyur, Manali\nZone 3 (Central): Egmore, Chetpet, Nungambakkam  \nZone 4 (South West): Kodambakkam, Saidapet, West Mambalam\nZone 5 (South): Adyar, Thiruvanmiyur, Sholinganallur\n\nCONTACT INFORMATION:\n24x7 Complaint Cell: 044-45674567\nCustomer Care: 044-28451300\nWebsite: https://cmwssb.tn.gov.in",
        source   |-> "water_supply_guidelines.txt",
        chunk_id |-> 1] >>
DocumentSets == << <<>>, water_supply_chunks >>

\* What the index answers for n indexed chunks: the chunks in any order of
\* similarity (the embeddings are opaque), the rest of the top_k places
\* filled with index -1; or the search raises.
Rankings(n, top_k) ==
    {r \in [1..top_k -> (-1)..(n - 1)] :
        /\ \A i \in 1..top_k : (r[i] = -1) <=> (i > n)
        /\ \A i, j \in 1..top_k : (i < j /\ r[i] >= 0) => r[i] # r[j]}

HitLists(n) ==
    IF n = 0 THEN {FaissHits(<<>>)}
    ELSE {FaissHits([i \in 1..LocalTopK |->
                        <<(IF r[i] >= 0 THEN LocalTopK - i ELSE -1), r[i]>>]) :
             r \in Rankings(n, LocalTopK)}
         \cup {Raise("search failed")}

\* What the text-completion collaborator answers: text, blank text, no
\* content, or an error.
Completions ==
    { Completion(Str("  You can reach Chennai Corporation at 1913.  ")),
      Completion(Str("   ")),
      Completion(None),
      Raise("Connection error.") }

\* The phrases of the conversational rules, one per rule, and the queries
\* made of at most n of them.
ChatPhrases ==
    << "Hello", "who are you", "services", "thanks", "bye", "help",
       "how do you work", "about chennai", "feedback", "xyz" >>

RECURSIVE Sentences(_, _)
Sentences(phrases, n) ==
    IF n = 0 THEN {""}
    ELSE Sentences(phrases, n - 1)
         \cup {IF q = "" THEN phrases[p] ELSE q \o " " \o phrases[p] :
                  q \in Sentences(phrases, n - 1), p \in DOMAIN phrases}

ChatQueries == Sentences(ChatPhrases, MaxQueryWords)

\* Documents of at most MaxParagraphs paragraphs: empty ones, short ones, one
\* longer than the small chunk size, and ones with white space at their ends.
ParagraphTexts == << "", "ab", "abcdefgh", " c", "d\n" >>

MaxParagraphs == 3

RECURSIVE Texts(_)
Texts(n) ==
    IF n = 1 THEN {ParagraphTexts[p] : p \in DOMAIN ParagraphTexts}
    ELSE Texts(n - 1)
         \cup {t \o "\n\n" \o ParagraphTexts[p] :
                  t \in Texts(n - 1), p \in DOMAIN ParagraphTexts}

Contents == Texts(MaxParagraphs)

SmallChunkSize == 6
ChunkSizes == {SmallChunkSize, ChunkSize}


(***************************************************************************)
(* AgentController.route_query                                             *)
(***************************************************************************)
NoModules ==
    "I apologize, but I'm currently unable to process your request. Please try again later."
RoutingError ==
    "I encountered an error processing your request. Please try rephrasing your question."

\* response = self.<module>.get_response(query) followed by
\* formatted_response = self.<module>.format_response(response), on what the
\* module holds.
cag_call(module, query) ==
    LET response == cag_get_response(module.cache_data, query)
    IN  [response |-> response, text |-> cag_format_response(response)]

rag_call(module, query, hits) ==
    LET response == rag_get_response(module.documents, module.index, hits, query)
    IN  [response |-> response, text |-> rag_format_response(response)]

kag_call(module, query) ==
    LET response == kag_get_response(module.knowledge_data,
                                     module.knowledge_graph, query)
    IN  [response |-> response, text |-> kag_format_response(response)]

slm_call(module, query, completion) ==
    LET response == slm_get_response(module.client_available, completion, query)
    IN  [response |-> response, text |-> slm_format_response(response)]

\* A variant of the dispatch whose fallback branch leaves selected_module as
\* the analysis set it.
DispatchKeepingSelection(self, selected_module, cag, rag, kag, slm) ==
    LET Formatted(call, module) ==
            IF IsRaise(call.text) THEN call.text
            ELSE [response |-> call.response,
                  formatted_response |-> call.text.value,
                  selected_module |-> module]
    IN  IF selected_module = "CAG" /\ self.cag_available
        THEN Formatted(cag, selected_module)
        ELSE IF selected_module = "RAG" /\ self.rag_available
        THEN Formatted(rag, selected_module)
        ELSE IF selected_module = "KAG" /\ self.kag_available
        THEN Formatted(kag, selected_module)
        ELSE IF selected_module = "SLM" /\ self.slm_available
        THEN Formatted(slm, selected_module)
        ELSE IF self.slm_available
        THEN Formatted(slm, selected_module)
        ELSE [response |-> [success |-> FALSE, source |-> "Controller",
                            error |-> "No modules available"],
              formatted_response |-> NoModules,
              selected_module |-> selected_module]

\* The body of the try block up to the end of the dispatch: the response, the
\* formatted response and the selected module it leaves, or what it raises.
\* cag, rag, kag and slm are the calls above; a branch evaluates the one it
\* makes and no other.
Dispatch(self, selected_module, cag, rag, kag, slm) ==
    LET Formatted(call, module) ==
            IF IsRaise(call.text) THEN call.text
            ELSE [response |-> call.response,
                  formatted_response |-> call.text.value,
                  selected_module |-> module]
    IN  IF selected_module = "CAG" /\ self.cag_available
        THEN Formatted(cag, selected_module)
        ELSE IF selected_module = "RAG" /\ self.rag_available
        THEN Formatted(rag, selected_module)
        ELSE IF selected_module = "KAG" /\ self.kag_available
        THEN Formatted(kag, selected_module)
        ELSE IF selected_module = "SLM" /\ self.slm_available
        THEN Formatted(slm, selected_module)
        ELSE IF self.slm_available
        THEN Formatted(slm, "SLM")
        ELSE [response |-> [success |-> FALSE, source |-> "Controller",
                            error |-> "No modules available"],
              formatted_response |-> NoModules,
              selected_module |-> selected_module]

\* A variant of route_query without its except clause: what the dispatch
\* raises reaches the caller.
route_query_propagating(self, analysis, cag, rag, kag, slm) ==
    LET selected_module == analysis.selected_module
        dispatched      == Dispatch(self, selected_module, cag, rag, kag, slm)
    IN  IF IsRaise(dispatched)
        THEN dispatched
        ELSE [success          |-> Get(dispatched.response, "success", FALSE),
              response_text    |-> dispatched.formatted_response,
              selected_module  |-> dispatched.selected_module,
              routing_analysis |-> analysis,
              module_response  |-> dispatched.response]

\* route_query(query), given analysis = self.analyze_query(query) and the
\* module calls for the query.
route_query(self, analysis, cag, rag, kag, slm) ==
    LET selected_module == analysis.selected_module
        dispatched      == Dispatch(self, selected_module, cag, rag, kag, slm)
    IN  IF IsRaise(dispatched)
        THEN [success          |-> FALSE,
              response_text    |-> RoutingError,
              selected_module  |-> selected_module,
              routing_analysis |-> analysis,
              error            |-> dispatched.error]
        ELSE [success          |-> Get(dispatched.response, "success", FALSE),
              response_text    |-> dispatched.formatted_response,
              selected_module  |-> dispatched.selected_module,
              routing_analysis |-> analysis,
              module_response  |-> dispatched.response]

(***************************************************************************)
(* The modules as constructed from the snapshots, and the calls the        *)
(* controller makes on them for its queries, evaluated once                *)
(***************************************************************************)
CagModules == [i \in DOMAIN CacheSnapshots |-> [cache_data |-> CacheSnapshots[i]]]

RagModules ==
    [i \in DOMAIN DocumentSets |->
        [documents |-> DocumentSets[i], index |-> Len(DocumentSets[i]) > 0]]

KagModules ==
    [i \in DOMAIN KnowledgeSnapshots |->
        [knowledge_data  |-> KnowledgeSnapshots[i],
         knowledge_graph |-> build_knowledge_graph(KnowledgeSnapshots[i])]]

\* The graph modules as constructed from the snapshots above.
KagVariantModules ==
    [i \in DOMAIN KnowledgeVariants |->
        [knowledge_data  |-> KnowledgeVariants[i],
         knowledge_graph |-> build_knowledge_graph(KnowledgeVariants[i])]]

SlmModules == {[client_available |-> b] : b \in BOOLEAN}

Analyses == [q \in RouteQueries |-> analyze_query(q)]

CagCalls == [i \in DOMAIN CagModules |-> [q \in RouteQueries |-> cag_call(CagModules[i], q)]]

RagCalls ==
    [i \in DOMAIN RagModules |->
        [h \in HitLists(Len(RagModules[i].documents)) |->
            [q \in RouteQueries |-> rag_call(RagModules[i], q, h)]]]

KagCalls == [i \in DOMAIN KagModules |-> [q \in RouteQueries |-> kag_call(KagModules[i], q)]]

SlmCalls ==
    [m \in SlmModules |-> [c \in Completions |-> [q \in RouteQueries |-> slm_call(m, q, c)]]]

\* The index at which a module is among the constructed ones, 0 if it is not.
Place(constructed, module) ==
    IF \E i \in DOMAIN constructed : constructed[i] = module
    THEN CHOOSE i \in DOMAIN constructed : constructed[i] = module
    ELSE 0

\* The same calls, taken from those evaluated once where they are among them.
Analysis(q) == IF q \in DOMAIN Analyses THEN Analyses[q] ELSE analyze_query(q)

CagCall(module, q) ==
    LET i == Place(CagModules, module)
    IN  IF i > 0 /\ q \in DOMAIN CagCalls[i] THEN CagCalls[i][q] ELSE cag_call(module, q)

RagCall(module, q, h) ==
    LET i == Place(RagModules, module)
    IN  IF i > 0 /\ h \in DOMAIN RagCalls[i] /\ q \in DOMAIN RagCalls[i][h]
        THEN RagCalls[i][h][q] ELSE rag_call(module, q, h)

KagCall(module, q) ==
    LET i == Place(KagModules, module)
    IN  IF i > 0 /\ q \in DOMAIN KagCalls[i] THEN KagCalls[i][q] ELSE kag_call(module, q)

SlmCall(module, q, c) ==
    IF module \in DOMAIN SlmCalls /\ c \in DOMAIN SlmCalls[module]
       /\ q \in DOMAIN SlmCalls[module][c]
    THEN SlmCalls[module][c][q] ELSE slm_call(module, q, c)

(***************************************************************************)
(* The constructors.  A file is Missing or Stored with what json.load      *)
(* makes of it (a value, or the exception it raises); a directory is       *)
(* Missing or a Folder of <<filename, content>> pairs.                     *)
(***************************************************************************)
Missing == [exists |-> FALSE]
Stored(content) == [exists |-> TRUE, content |-> content]
Folder(files) == [exists |-> TRUE, files |-> files]

JSONDecodeError == "Expecting value: line 1 column 1 (char 0)"

\* self.logger.<level>(...): self has no attribute logger until __init__
\* has reached its last statements.
logger_call(self, class) ==
    IF self.logger THEN None
    ELSE Raise("'" \o class \o "' object has no attribute 'logger'")

\* A method whose body is try: <body> except Exception: self.logger.error(..)
\* - what it leaves of self (after), or what it raises: the error of the
\* handler's own logger call when the body raised.
Guarded(self, class, body, after) ==
    IF IsRaise(body)
    THEN IF IsRaise(logger_call(self, class)) THEN logger_call(self, class) ELSE after
    ELSE after

\* CAGModule.load_cache
load_cache(self, file) ==
    LET decoded == file.exists /\ ~IsRaise(file.content)
        after   == IF decoded THEN [self EXCEPT !.cache_data = file.content] ELSE self
        body    == IF file.exists /\ ~decoded THEN file.content
                   ELSE logger_call(self, "CAGModule")
    IN  Guarded(self, "CAGModule", body, after)

\* CAGModule(cache_file_path): the module, or the exception of __init__.
CAGModule__init__(file) ==
    LET loaded == load_cache([cache_data |-> <<>>, logger |-> FALSE], file)
    IN  IF IsRaise(loaded) THEN loaded ELSE [cache_data |-> loaded.cache_data]

\* KAGModule.load_knowledge
load_knowledge(self, file) ==
    LET decoded == file.exists /\ ~IsRaise(file.content)
        after   == IF decoded THEN [self EXCEPT !.knowledge_data = file.content] ELSE self
        body    == IF file.exists /\ ~decoded THEN file.content
                   ELSE logger_call(self, "KAGModule")
    IN  Guarded(self, "KAGModule", body, after)

\* KAGModule(knowledge_file): load_knowledge, then build_knowledge_graph,
\* whose try block ends with a logger call as well.
KAGModule__init__(file) ==
    LET loaded == load_knowledge([knowledge_data |-> <<>>, logger |-> FALSE], file)
        built  == Guarded(loaded, "KAGModule", logger_call(loaded, "KAGModule"),
                          build_knowledge_graph(loaded.knowledge_data))
    IN  IF IsRaise(loaded) THEN loaded
        ELSE IF IsRaise(built) THEN built
        ELSE [knowledge_data |-> loaded.knowledge_data, knowledge_graph |-> built]

\* s.endswith(t)
EndsWith(s, t) == Len(t) <= Len(s) /\ SubSeq(s, Len(s) - Len(t) + 1, Len(s)) = t

\* The chunks of the .txt files of a directory, in listing order.
RECURSIVE FileLoop(_, _)
FileLoop(files, n) ==
    IF n > Len(files) THEN <<>>
    ELSE (IF EndsWith(files[n][1], ".txt")
          THEN _split_document(files[n][2], files[n][1], ChunkSize) ELSE <<>>)
         \o FileLoop(files, n + 1)

\* RAGModule.load_documents
load_documents(self, docs) ==
    LET after == IF docs.exists
                 THEN [self EXCEPT !.documents = FileLoop(docs.files, 1)] ELSE self
    IN  Guarded(self, "RAGModule", logger_call(self, "RAGModule"), after)

\* RAGModule.create_index: its first logger call is outside the try block.
create_index(self) ==
    IF Len(self.documents) = 0
    THEN IF IsRaise(logger_call(self, "RAGModule"))
         THEN logger_call(self, "RAGModule") ELSE self
    ELSE Guarded(self, "RAGModule", logger_call(self, "RAGModule"),
                 [self EXCEPT !.index = TRUE])

\* RAGModule(docs_path): the module, or the exception of __init__.
RAGModule__init__(docs) ==
    LET loaded  == load_documents([documents |-> <<>>, index |-> FALSE,
                                   logger |-> FALSE], docs)
        indexed == create_index(loaded)
    IN  IF IsRaise(loaded) THEN loaded
        ELSE IF IsRaise(indexed) THEN indexed
        ELSE [documents |-> indexed.documents, index |-> indexed.index]

\* SLMModule(): the client is available when the openai package was
\* imported and an API key is set.
SLMModule__init__(openai) ==
    [client_available |-> openai.installed /\ openai.api_key # ""]

\* AgentController(): each module in a try block of its own.  An attribute
\* that was never assigned is None.
AgentController__init__(files) ==
    LET rag == RAGModule__init__(files.docs_path)
        kag == KAGModule__init__(files.knowledge_file)
        cag == CAGModule__init__(files.cache_file)
        slm == SLMModule__init__(files.openai)
    IN  [self |-> [rag_available |-> ~IsRaise(rag), kag_available |-> ~IsRaise(kag),
                   cag_available |-> ~IsRaise(cag), slm_available |-> ~IsRaise(slm)],
         rag |-> IF IsRaise(rag) THEN None ELSE rag,
         kag |-> IF IsRaise(kag) THEN None ELSE kag,
         cag |-> IF IsRaise(cag) THEN None ELSE cag,
         slm |-> IF IsRaise(slm) THEN None ELSE slm]


(***************************************************************************)
(* CivicMindAIApp.process_query: what the user is shown                    *)
(***************************************************************************)
AppUnavailable ==
    "I apologize, but the AI system is currently unavailable. Please try again later."

\* held is st.session_state.controller being set; controller_response is
\* what route_query returned, or what it raised.
process_query(held, controller_response) ==
    IF ~held THEN [content |-> AppUnavailable, module |-> "ERROR"]
    ELSE IF IsRaise(controller_response)
    THEN [content |-> "I encountered an error processing your request: "
                      \o controller_response.error,
          module  |-> "ERROR"]
    ELSE [content      |-> controller_response.response_text,
          module       |-> controller_response.selected_module,
          routing_info |-> controller_response.routing_analysis,
          success      |-> controller_response.success]

(***************************************************************************)
(* The state: what is on disk, the controller's availability flags, the    *)
(* modules it holds and the operation in progress                          *)
(***************************************************************************)
VARIABLES
    controller,     \* rag_available, kag_available, cag_available, slm_available
    cag_module,     \* cache_data
    rag_module,     \* documents, index
    kag_module,     \* knowledge_data, knowledge_graph
    slm_module,     \* client_available
    disk,           \* the files the constructors read, and the openai setup
    pc,             \* "new", "idle", or the operation that has returned
    asked,          \* the argument of that operation
    replied,        \* what the collaborator it called answered, if it called one
    returned,       \* what it returned
    session_state,  \* st.session_state of the chat page
    constructions   \* how many times the chat page has called AgentController()

objects == <<controller, cag_module, rag_module, kag_module, slm_module>>
session == <<session_state, constructions>>
vars    == <<objects, disk, pc, asked, replied, returned, session>>

\* A session that holds no key: one that no script run has touched.
NoSession == [k \in {} |-> None]

\* water_supply_guidelines.txt as the repository writes it.
water_supply_guidelines ==
    water_supply_chunks[1].content \o "\n\n" \o water_supply_chunks[2].content

\* What os.listdir finds in the documents directory: at most MaxFiles files
\* of different names, each with one of the texts.
FileNames == <<"a.txt", "a.txt_1.txt", "water_supply_guidelines.txt", "notes.md">>
FileTexts == {water_supply_guidelines, "ab\n\n c", ""}

MaxFiles == 2

RECURSIVE Listings(_)
Listings(n) ==
    IF n = 0 THEN {<<>>}
    ELSE UNION {{Append(l, <<FileNames[f], t>>) :
                    f \in {k \in DOMAIN FileNames :
                              \A i \in DOMAIN l : l[i][1] # FileNames[k]},
                    t \in FileTexts} : l \in Listings(n - 1)}

DirListings == UNION {Listings(k) : k \in 0..MaxFiles}

\* What a snapshot's place can hold: nothing, the snapshot, or a file that
\* json.load cannot decode.
CacheFiles ==
    {Missing, Stored(Raise(JSONDecodeError))}
        \cup {Stored(CacheSnapshots[i]) : i \in DOMAIN CacheSnapshots}
KnowledgeFiles ==
    {Missing, Stored(Raise(JSONDecodeError))}
        \cup {Stored(KnowledgeSnapshots[i]) : i \in DOMAIN KnowledgeSnapshots}
DocsPaths ==
    {Missing, Folder(<<>>),
     Folder(<< <<"water_supply_guidelines.txt", water_supply_guidelines>> >>)}
OpenAISetups ==
    {[installed |-> FALSE, api_key |-> ""], [installed |-> TRUE, api_key |-> ""],
     [installed |-> TRUE, api_key |-> "sk-key"]}

\* The disk from which modules holding these snapshots were loaded.
DiskOf(cag, rag, kag, slm) ==
    [cache_file     |-> Stored(cag.cache_data),
     knowledge_file |-> Stored(kag.knowledge_data),
     docs_path      |-> IF Len(rag.documents) = 0 THEN Folder(<<>>)
                        ELSE Folder(<< <<"water_supply_guidelines.txt",
                                         water_supply_guidelines>> >>),
     openai         |-> [installed |-> TRUE,
                         api_key   |-> IF slm.client_available THEN "sk-key" ELSE ""]]

\* A controller in service.  route_query reads the four flags whatever set
\* them, so each is drawn freely; every module is one holding a snapshot.
Init ==
    /\ controller \in [rag_available : BOOLEAN, kag_available : BOOLEAN,
                       cag_available : BOOLEAN, slm_available : BOOLEAN]
    /\ \E i \in DOMAIN CagModules : cag_module = CagModules[i]
    /\ \E i \in DOMAIN RagModules : rag_module = RagModules[i]
    /\ \E i \in DOMAIN KagModules : kag_module = KagModules[i]
    /\ slm_module \in SlmModules
    /\ disk = DiskOf(cag_module, rag_module, kag_module, slm_module)
    /\ pc = "idle"
    /\ asked = ""
    /\ replied = None
    /\ returned = None
    /\ session_state = NoSession
    /\ constructions = 0

\* Before AgentController() has run: nothing is assigned yet.
InitStartup ==
    /\ disk \in [cache_file : CacheFiles, knowledge_file : KnowledgeFiles,
                 docs_path : DocsPaths, openai : OpenAISetups]
    /\ controller = None
    /\ cag_module = None
    /\ rag_module = None
    /\ kag_module = None
    /\ slm_module = None
    /\ pc = "new"
    /\ asked = ""
    /\ replied = None
    /\ returned = None
    /\ session_state = NoSession
    /\ constructions = 0

\* AgentController.__init__()
Construct ==
    /\ pc = "new"
    /\ LET made == AgentController__init__(disk)
       IN  /\ controller' = made.self
           /\ cag_module' = made.cag
           /\ rag_module' = made.rag
           /\ kag_module' = made.kag
           /\ slm_module' = made.slm
    /\ pc' = "idle"
    /\ UNCHANGED <<session, disk, asked, replied, returned>>

\* The module whose get_response route_query calls for a selected module,
\* "Controller" when it calls none.
Serving(self, selected_module) ==
    IF selected_module = "CAG" /\ self.cag_available THEN "CAG"
    ELSE IF selected_module = "RAG" /\ self.rag_available THEN "RAG"
    ELSE IF selected_module = "KAG" /\ self.kag_available THEN "KAG"
    ELSE IF self.slm_available THEN "SLM"
    ELSE "Controller"

\* The number of chunks the document module holds, 0 when there is none.
Indexed == IF rag_module = None THEN 0 ELSE Len(rag_module.documents)

\* route_query(q) on the state, with the answers c of the completion call
\* and h of the index, should it make these calls.
Routed(q, c, h) ==
    route_query(controller, Analysis(q),
                CagCall(cag_module, q), RagCall(rag_module, q, h),
                KagCall(kag_module, q), SlmCall(slm_module, q, c))

\* The collaborator's answer that the call consumed.
Consumed(q, c, h) ==
    LET serving == Serving(controller, Analysis(q).selected_module)
    IN  IF serving = "SLM" /\ slm_module.client_available THEN c
        ELSE IF serving = "RAG" /\ rag_module.index /\ Indexed > 0 THEN h
        ELSE None

\* The document module after the call.
Searched(q, h) ==
    IF Serving(controller, Analysis(q).selected_module) = "RAG"
    THEN [rag_module EXCEPT
             !.documents = documents_after_search(rag_module.documents,
                                                  rag_module.index, h)]
    ELSE rag_module

\* AgentController.route_query(query), with what the collaborators answer
\* while it runs.
RouteQuery ==
    /\ pc = "idle"
    /\ \E q \in RouteQueries, c \in Completions, h \in HitLists(Indexed) :
          /\ asked' = q
          /\ replied' = Consumed(q, c, h)
          /\ returned' = Routed(q, c, h)
          /\ rag_module' = Searched(q, h)
    /\ pc' = "route_query"
    /\ UNCHANGED <<session, controller, cag_module, kag_module, slm_module, disk>>

\* route_query(query) has reached openai.ChatCompletion.create, which is
\* called without a timeout, and the collaborator does not answer: the call
\* does not return.
Awaiting == "openai.ChatCompletion.create"

RouteQueryAwaits ==
    /\ pc = "idle"
    /\ \E q \in RouteQueries :
          /\ Serving(controller, Analysis(q).selected_module) = "SLM"
          /\ slm_module.client_available
          /\ asked' = q
    /\ pc' = Awaiting
    /\ UNCHANGED <<session, objects, disk, replied, returned>>

\* CivicMindAIApp.process_query(query) on the controller.
ProcessQuery ==
    /\ pc = "idle"
    /\ \E q \in RouteQueries, c \in Completions, h \in HitLists(Indexed) :
          /\ asked' = q
          /\ replied' = Consumed(q, c, h)
          /\ returned' = process_query(TRUE, Routed(q, c, h))
          /\ rag_module' = Searched(q, h)
    /\ pc' = "process_query"
    /\ UNCHANGED <<session, controller, cag_module, kag_module, slm_module, disk>>

\* AgentController.analyze_query(query).
AnalyzeQuery ==
    /\ pc = "idle"
    /\ \E q \in Queries :
          /\ asked' = q
          /\ returned' = analyze_query(q)
    /\ pc' = "analyze_query"
    /\ UNCHANGED <<session, objects, disk, replied>>

\* CAGModule.search_cache(query).
SearchCache ==
    /\ pc = "idle"
    /\ \E q \in CacheQueries :
          /\ asked' = q
          /\ returned' = search_cache(cag_module.cache_data, q)
    /\ pc' = "search_cache"
    /\ UNCHANGED <<session, objects, disk, replied>>

\* CAGModule.get_response(query).
CagGetResponse ==
    /\ pc = "idle"
    /\ \E q \in CacheQueries :
          /\ asked' = q
          /\ returned' = cag_get_response(cag_module.cache_data, q)
    /\ pc' = "cag_get_response"
    /\ UNCHANGED <<session, objects, disk, replied>>

\* SLMModule.get_response(query), with what the completion call answers.
SlmGetResponse ==
    /\ pc = "idle"
    /\ \E q \in Queries, c \in Completions :
          /\ asked' = q
          /\ replied' = IF slm_module.client_available THEN c ELSE None
          /\ returned' = slm_get_response(slm_module.client_available, c, q)
    /\ pc' = "slm_get_response"
    /\ UNCHANGED <<session, objects, disk>>

\* SLMModule.classify_query_type(query).
ClassifyQueryType ==
    /\ pc = "idle"
    /\ \E q \in ChatQueries :
          /\ asked' = q
          /\ returned' = classify_query_type(q)
    /\ pc' = "classify_query_type"
    /\ UNCHANGED <<session, objects, disk, replied>>

\* KAGModule.find_responsible_department(issue).
FindResponsibleDepartment ==
    /\ pc = "idle"
    /\ \E q \in KagQueries :
          /\ asked' = q
          /\ returned' = find_responsible_department(kag_module.knowledge_graph, q)
    /\ pc' = "find_responsible_department"
    /\ UNCHANGED <<session, objects, disk, replied>>

\* KAGModule.multi_hop_reasoning(query).
MultiHopReasoning ==
    /\ pc = "idle"
    /\ \E q \in KagQueries :
          /\ asked' = q
          /\ returned' = multi_hop_reasoning(q)
    /\ pc' = "multi_hop_reasoning"
    /\ UNCHANGED <<session, objects, disk, replied>>

\* KAGModule.build_knowledge_graph() on the knowledge_data the module holds:
\* the graph it leaves in knowledge_graph.
BuildKnowledgeGraph ==
    /\ pc = "idle"
    /\ asked' = ""
    /\ returned' = build_knowledge_graph(kag_module.knowledge_data)
    /\ kag_module' = [kag_module EXCEPT !.knowledge_graph = returned']
    /\ pc' = "build_knowledge_graph"
    /\ UNCHANGED <<session, controller, cag_module, rag_module, slm_module, disk, replied>>

\* RAGModule.get_response(query), with what the index answers.
RagGetResponse ==
    /\ pc = "idle"
    /\ \E q \in Queries, h \in HitLists(Indexed) :
          /\ asked' = q
          /\ replied' = IF rag_module.index /\ Indexed > 0 THEN h ELSE None
          /\ returned' = rag_get_response(rag_module.documents, rag_module.index, h, q)
          /\ rag_module' =
                [rag_module EXCEPT
                    !.documents = documents_after_search(rag_module.documents,
                                                         rag_module.index, h)]
    /\ pc' = "rag_get_response"
    /\ UNCHANGED <<session, controller, cag_module, kag_module, slm_module, disk>>

\* RAGModule._split_document(content, filename, chunk_size).
SplitDocument ==
    /\ pc = "idle"
    /\ \E content \in Contents, chunk_size \in ChunkSizes :
          /\ asked' = <<content, chunk_size>>
          /\ returned' = _split_document(content, "a.txt", chunk_size)
    /\ pc' = "_split_document"
    /\ UNCHANGED <<session, objects, disk, replied>>

\* The for loop of RAGModule.load_documents over the files of the directory:
\* the chunks it leaves in self.documents.
LoadDocuments ==
    /\ pc = "idle"
    /\ \E files \in DirListings :
          /\ asked' = files
          /\ returned' = FileLoop(files, 1)
    /\ pc' = "load_documents"
    /\ UNCHANGED <<session, objects, disk, replied>>

\* The caller takes the result; the next call can start.
Return ==
    /\ pc \notin {"new", "idle", Awaiting}
    /\ pc' = "idle"
    /\ asked' = ""
    /\ replied' = None
    /\ returned' = None
    /\ UNCHANGED <<session, objects, disk>>

\* The controller serving queries.
Next == RouteQuery \/ RouteQueryAwaits \/ ProcessQuery \/ Return

Spec == Init /\ [][Next]_vars

\* The controller from its construction on.
NextStartup == Construct \/ Next

SpecStartup == InitStartup /\ [][NextStartup]_vars

\* Everything loaded from the repository's own data, every module available.
Repository ==
    /\ controller = [rag_available |-> TRUE, kag_available |-> TRUE,
                     cag_available |-> TRUE, slm_available |-> TRUE]
    /\ cag_module.cache_data = civic_cache
    /\ rag_module.documents = water_supply_chunks
    /\ kag_module.knowledge_data = civic_knowledge

\* analyze_query over the queries.
InitRouter == Init /\ Repository /\ ~slm_module.client_available

NextRouter == AnalyzeQuery \/ Return

SpecRouter == InitRouter /\ [][NextRouter]_vars

\* The cache module over the queries, for each snapshot.
InitCache ==
    /\ Init
    /\ controller = [rag_available |-> TRUE, kag_available |-> TRUE,
                     cag_available |-> TRUE, slm_available |-> TRUE]
    /\ rag_module.documents = water_supply_chunks
    /\ ~slm_module.client_available

NextCache == SearchCache \/ CagGetResponse \/ Return

SpecCache == InitCache /\ [][NextCache]_vars

\* The conversational module over the queries, for each client state.
InitSLM == Init /\ Repository

NextSLM == SlmGetResponse \/ ClassifyQueryType \/ Return

SpecSLM == InitSLM /\ [][NextSLM]_vars

\* The document module over the queries, with and without documents.
InitRAG ==
    /\ Init
    /\ controller = [rag_available |-> TRUE, kag_available |-> TRUE,
                     cag_available |-> TRUE, slm_available |-> TRUE]
    /\ cag_module.cache_data = civic_cache
    /\ ~slm_module.client_available

NextRAG == RagGetResponse \/ Return

SpecRAG == InitRAG /\ [][NextRAG]_vars

\* _split_document over the documents, and the loading of directories.
InitChunk == Init /\ Repository /\ ~slm_module.client_available

NextChunk == SplitDocument \/ LoadDocuments \/ Return

SpecChunk == InitChunk /\ [][NextChunk]_vars




\* The graph module over its queries, for each snapshot.
InitKAG ==
    /\ controller = [rag_available |-> TRUE, kag_available |-> TRUE,
                     cag_available |-> TRUE, slm_available |-> TRUE]
    /\ cag_module = CagModules[1]
    /\ rag_module = RagModules[2]
    /\ \E i \in DOMAIN KagVariantModules : kag_module = KagVariantModules[i]
    /\ slm_module = [client_available |-> FALSE]
    /\ disk = DiskOf(cag_module, rag_module, kag_module, slm_module)
    /\ pc = "idle"
    /\ asked = ""
    /\ replied = None
    /\ returned = None
    /\ session_state = NoSession
    /\ constructions = 0

NextKAG == FindResponsibleDepartment \/ MultiHopReasoning \/ BuildKnowledgeGraph \/ Return

SpecKAG == InitKAG /\ [][NextKAG]_vars

(***************************************************************************)
(* The chat page: CivicMindAIApp over st.session_state.  Every script run  *)
(* is main(): CivicMindAIApp() and then run(), to its end or to the        *)
(* st.rerun() it reaches.  The feedback buttons, which only append to      *)
(* feedback_data, are left out.                                            *)
(***************************************************************************)
\* st.session_state[key] = value
SetKey(state, key, value) == (key :> value) @@ state

\* CivicMindAIApp.initialize_session_state(): a key is set if it is not there.
SessionDefaults ==
    [messages |-> <<>>, query_count |-> 0, session_start |-> "datetime.now()",
     feedback_data |-> <<>>]

initialize_session_state(state) == state @@ SessionDefaults

\* The AgentController the n-th call of AgentController() made.
Instance(n) == [type |-> "AgentController", id |-> n]

\* AgentController() where the page runs: after the four modules it prints
\* a line that starts with a robot sign, which a console whose encoding
\* lacks the sign refuses.
AgentController(env) ==
    IF env.stdout_encoding = "utf-8" THEN AgentController__init__(env)
    ELSE Raise("'charmap' codec can't encode character")

ConstructsInEveryRun(state, env) == env.importable

\* Whether CivicMindAIApp() calls AgentController(): the import succeeded
\* and the session has no key 'controller'.
Constructs(state, env) == env.importable /\ "controller" \notin DOMAIN state

\* The session after CivicMindAIApp(), made being what AgentController()
\* returned or raised if it was called, the n-th time.
CivicMindAIApp__init__(state, env, made, n) ==
    IF ~env.importable
    THEN [controller |-> None, controller_status |-> "Controller not available"]
             @@ initialize_session_state(state)
    ELSE IF ~Constructs(initialize_session_state(state), env)
    THEN initialize_session_state(state)
    ELSE IF IsRaise(made)
    THEN [controller |-> None, controller_status |-> "Error: " \o made.error]
             @@ initialize_session_state(state)
    ELSE [controller |-> Instance(n), controller_status |-> "Ready"]
             @@ initialize_session_state(state)

\* The machines the page runs on: the repository's files, with or without
\* the packages agent_controller imports, a key for openai, and a console
\* that can print the robot sign.
AppDisks ==
    [cache_file      : {Stored(civic_cache)},
     knowledge_file  : {Stored(civic_knowledge)},
     docs_path       : {Folder(<< <<"water_supply_guidelines.txt",
                                    water_supply_guidelines>> >>)},
     openai          : OpenAISetups,
     importable      : BOOLEAN,
     stdout_encoding : {"utf-8", "cp1252"}]

\* CivicMindAIApp() in a session: the session it leaves, the calls of
\* AgentController() made so far, and the controller with its modules.  made
\* is what AgentController() returns or raises, n the calls before this one
\* and held the controller and the modules there were.
CivicMindAIApp(state, env, made, n, held) ==
    LET calls == Constructs(initialize_session_state(state), env)
    IN  [session_state |-> CivicMindAIApp__init__(state, env, made, n + 1),
         constructions |-> IF calls THEN n + 1 ELSE n,
         objects       |-> IF calls /\ ~IsRaise(made)
                           THEN <<made.self, made.cag, made.rag, made.kag, made.slm>>
                           ELSE held]

App == CivicMindAIApp(session_state, disk, AgentController(disk), constructions, objects)

AnsweredUncounted(state, query, response) ==
    [state EXCEPT !.messages =
        @ \o << [role |-> "user", content |-> query],
                [role |-> "assistant", content |-> response.content,
                 module |-> response.module] >>]

\* run() when st.chat_input returned a query: the user's message, the
\* answer of process_query, and the count.
Answered(state, query, response) ==
    [state EXCEPT !.messages =
                      @ \o << [role |-> "user", content |-> query],
                              [role |-> "assistant", content |-> response.content,
                               module |-> response.module] >>,
                  !.query_count = @ + 1]

\* The 'Clear Chat' button of render_sidebar().
clear_chat(state) == [state EXCEPT !.messages = <<>>, !.query_count = 0]

\* The 'Reset Session' button of render_sidebar(): every key is deleted.
reset_session(state) == NoSession

\* The number of chunks a document module holds, 0 when there is none.
IndexedBy(rag) == IF rag = None THEN 0 ELSE Len(rag.documents)

\* What the user types into st.chat_input: the queries the page suggests.
AppQueries == {"Fire emergency number", "How to pay property tax online?"}

\* How many queries a session is given before it is cleared or reset, and
\* how many times AgentController() is called before no session is reset.
MaxTurns == 2
MaxSessions == 2

InitApp ==
    /\ disk \in AppDisks
    /\ controller = None
    /\ cag_module = None
    /\ rag_module = None
    /\ kag_module = None
    /\ slm_module = None
    /\ pc = "new"
    /\ asked = ""
    /\ replied = None
    /\ returned = None
    /\ session_state = NoSession
    /\ constructions = 0

\* What CivicMindAIApp() assigns in a script run.
Started(app) ==
    /\ constructions' = app.constructions
    /\ controller' = app.objects[1]
    /\ cag_module' = app.objects[2]
    /\ kag_module' = app.objects[4]
    /\ slm_module' = app.objects[5]

\* A script run in which no widget answers: the first of a session, and the
\* one every st.rerun() starts.
Rerun ==
    /\ pc \in {"new", "run", "clear_chat", "reset_session"}
    /\ \E app \in {App} :
          /\ Started(app)
          /\ rag_module' = app.objects[3]
          /\ session_state' = app.session_state
    /\ pc' = "idle"
    /\ asked' = ""
    /\ replied' = None
    /\ returned' = None
    /\ UNCHANGED disk

\* A script run in which st.chat_input returns a query, to its st.rerun().
ChatInput ==
    /\ pc = "idle"
    /\ \E app \in {App} :
          /\ app.session_state.query_count < MaxTurns
          /\ Started(app)
          /\ \E q \in AppQueries, c \in Completions,
                h \in HitLists(IndexedBy(app.objects[3])) :
                LET o        == app.objects
                    held     == app.session_state.controller # None
                    serving  == IF held
                                THEN Serving(o[1], Analysis(q).selected_module)
                                ELSE "ERROR"
                    response ==
                        process_query(held,
                            route_query(o[1], Analysis(q), CagCall(o[2], q),
                                        RagCall(o[3], q, h), KagCall(o[4], q),
                                        SlmCall(o[5], q, c)))
                IN  /\ asked' = q
                    /\ replied' =
                          IF serving = "SLM" /\ o[5].client_available THEN c
                          ELSE IF serving = "RAG" /\ o[3].index /\ IndexedBy(o[3]) > 0
                          THEN h
                          ELSE None
                    /\ returned' = response
                    /\ rag_module' =
                          IF serving = "RAG"
                          THEN [o[3] EXCEPT !.documents =
                                   documents_after_search(o[3].documents, o[3].index, h)]
                          ELSE o[3]
                    /\ session_state' = Answered(app.session_state, q, response)
    /\ pc' = "run"
    /\ UNCHANGED disk

\* A script run in which the 'Clear Chat' button answers, to its st.rerun().
ClearChat ==
    /\ pc = "idle"
    /\ \E app \in {App} :
          /\ Started(app)
          /\ rag_module' = app.objects[3]
          /\ session_state' = clear_chat(app.session_state)
    /\ pc' = "clear_chat"
    /\ UNCHANGED <<disk, asked, replied, returned>>

\* A script run in which the 'Reset Session' button answers, to its
\* st.rerun().
ResetSession ==
    /\ pc = "idle"
    /\ constructions < MaxSessions
    /\ \E app \in {App} :
          /\ Started(app)
          /\ rag_module' = app.objects[3]
          /\ session_state' = reset_session(app.session_state)
    /\ pc' = "reset_session"
    /\ UNCHANGED <<disk, asked, replied, returned>>

NextApp == Rerun \/ ChatInput \/ ClearChat \/ ResetSession

SpecApp == InitApp /\ [][NextApp]_vars

(***************************************************************************)
(* Properties of the router (analyze_query), under SpecRouter              *)
(***************************************************************************)
\* The keywords and the patterns of a strategy found in the lower-cased
\* query, by their place in the strategy's lists.
KeywordHits(m, q) ==
    {k \in DOMAIN routing_patterns[m].keywords :
        Contains(Lower(q), routing_patterns[m].keywords[k])}

PatternHits(m, q) ==
    {k \in DOMAIN routing_patterns[m].patterns :
        re_search(routing_patterns[m].patterns[k].re, Lower(q))}

NoHit(q) == \A m \in Modules : KeywordHits(m, q) = {} /\ PatternHits(m, q) = {}

\* C4: when some score is nonzero, the selected strategy holds the highest
\* score, and every strategy before it in the priority order CAG > RAG > KAG
\* > SLM scores strictly less (a tie goes to the earliest).
C4_HighestScoreWinsTiesByPriority ==
    pc = "analyze_query" =>
        LET priority == <<"CAG", "RAG", "KAG", "SLM">>
            scores   == returned.scores
            winner   == returned.selected_module
        IN  (\E m \in DOMAIN scores : scores[m] > 0) =>
               /\ \A m \in DOMAIN scores : scores[m] <= scores[winner]
               /\ \A i, j \in DOMAIN priority :
                     (priority[j] = winner /\ i < j)
                         => scores[priority[i]] < scores[winner]

\* C4, its case: two strategies tie for the highest nonzero score.
C4_Witness ==
    /\ pc = "analyze_query"
    /\ \E m \in DOMAIN returned.scores :
          /\ m # returned.selected_module
          /\ returned.scores[m] = returned.scores[returned.selected_module]
          /\ returned.scores[m] > 0

\* C5: a query in which no keyword and no pattern of any strategy is found
\* is routed to SLM with a score of 0 for all four strategies and
\* confidence 0.
C5_NoMatchRoutesToSLM ==
    (pc = "analyze_query" /\ NoHit(asked)) =>
        /\ returned.selected_module = "SLM"
        /\ \A m \in Modules : returned.scores[m] = 0
        /\ returned.confidence.num = 0

\* C5, its case: analyze_query has answered a non-empty query without a hit.
C5_Witness ==
    /\ pc = "analyze_query"
    /\ asked # ""
    /\ NoHit(asked)
    /\ returned.selected_module = "SLM"

\* C6: the score of every strategy is 1 x the number of its keywords in the
\* lower-cased query + 2 x the number of its patterns found in it, whatever
\* the other strategies match, and its matched list has one entry per match.
C6_ScoreCountsOwnMatches ==
    pc = "analyze_query" =>
        \A m \in Modules :
            /\ returned.scores[m] =
                  1 * Cardinality(KeywordHits(m, asked))
                      + 2 * Cardinality(PatternHits(m, asked))
            /\ Len(returned.matched_patterns[m]) =
                  Cardinality(KeywordHits(m, asked))
                      + Cardinality(PatternHits(m, asked))

\* C6, its case: a query that scores for two strategies, one of them by a
\* keyword and a pattern.
C6_Witness ==
    /\ pc = "analyze_query"
    /\ \E m, o \in Modules :
          /\ m # o
          /\ KeywordHits(m, asked) # {}
          /\ PatternHits(m, asked) # {}
          /\ returned.scores[o] > 0

\* C7: the confidence is the selected strategy's score over the sum of the
\* four scores, 0 when all scores are 0, and lies in [0, 1].
C7_ConfidenceIsWinnerOverSum ==
    pc = "analyze_query" =>
        LET scores == returned.scores
            sum    == scores["CAG"] + scores["RAG"] + scores["KAG"] + scores["SLM"]
            winner == scores[returned.selected_module]
            num    == returned.confidence.num
            den    == returned.confidence.den
        IN  /\ den > 0
            /\ sum > 0 => num * sum = winner * den
            /\ sum = 0 => num = 0
            /\ 0 <= num /\ num <= den

\* C7, its case: a confidence strictly between 0 and 1.
C7_Witness ==
    /\ pc = "analyze_query"
    /\ 0 < returned.confidence.num
    /\ returned.confidence.num < returned.confidence.den

(***************************************************************************)
(* Properties of the conversational module, under SpecSLM                  *)
(***************************************************************************)
\* C8: whatever the query and whatever the completion client does (not set
\* up, answering text, answering blank or no text, raising), get_response
\* returns success = True with a non-empty response.
C8_ConversationalAlwaysFound ==
    pc = "slm_get_response" =>
        /\ returned.success
        /\ "error" \notin DOMAIN returned
        /\ returned.data.response # ""

\* C8, its case: the client is set up and the call yielded no text, so the
\* answer is a predefined one.
C8_Witness ==
    /\ pc = "slm_get_response"
    /\ slm_module.client_available
    /\ returned.success
    /\ returned.data.method = "Fallback Response"

(***************************************************************************)
(* Properties of the cache module, under SpecCache                         *)
(***************************************************************************)
\* The keyword tables of search_cache: the category each reads and the type
\* of the result it declares.
CacheTables ==
    << [table |-> emergency_keywords, category |-> "emergency_contacts",
        kind |-> "emergency_contact"],
       [table |-> gov_keywords, category |-> "government_contacts",
        kind |-> "government_contact"],
       [table |-> service_keywords, category |-> "civic_services_helplines",
        kind |-> "civic_service"],
       [table |-> zone_keywords, category |-> "zone_contacts",
        kind |-> "zone_contact"],
       [table |-> info_keywords, category |-> "quick_info",
        kind |-> "quick_info"] >>

\* The cache key (or one of the keys) of a table entry is in the category.
KeyExists(cache, category, entry) ==
    LET data == CategoryData(cache, category)
    IN  /\ data.kind = "dict"
        /\ IF Len(entry) = 3 /\ entry[3]
           THEN \E k \in DOMAIN entry[2] : entry[2][k] \in DOMAIN data.items
           ELSE entry[2] \in DOMAIN data.items

\* C9: on the repository's snapshot, a query that contains a keyword of a
\* table whose cache key exists makes search_cache return a result of the
\* type declared for that table, whatever else the query contains.
C9_KeywordFindsItsCategory ==
    (pc = "search_cache" /\ cag_module.cache_data = civic_cache) =>
        \A t \in DOMAIN CacheTables : \A e \in DOMAIN CacheTables[t].table :
            LET entry == CacheTables[t].table[e]
            IN  (/\ KeyExists(civic_cache, CacheTables[t].category, entry)
                 /\ Contains(Lower(asked), entry[1]))
                    => returned.type = CacheTables[t].kind

\* C10: with an empty cache_data, search_cache raises nothing and finds
\* nothing, and get_response reports no success and no error, for every
\* query.
C10_EmptyCacheYieldsEmpty ==
    cag_module.cache_data = EmptyCache =>
        /\ pc = "search_cache" => returned = None
        /\ pc = "cag_get_response" => IsEmpty(returned)

(***************************************************************************)
(* Properties of the controller (route_query), under Spec                  *)
(***************************************************************************)
\* self.<module>_available of the strategy named m.
Available(self, m) ==
    [CAG |-> self.cag_available, RAG |-> self.rag_available,
     KAG |-> self.kag_available, SLM |-> self.slm_available][m]

\* s begins with t.
StartsWith(s, t) == Len(t) <= Len(s) /\ SubSeq(s, 1, Len(t)) = t

\* text is one of the predefined responses of the conversational module,
\* as format_response renders it.
Canned(text) ==
    \E k \in DOMAIN fallback_responses : StartsWith(text, fallback_responses[k])

\* C1: for every query and every combination of the availability flags,
\* route_query returns a response (it raises nothing), with a non-empty
\* response_text and a selected_module among the strategy names.
C1_RouteQueryAlwaysAnswers ==
    pc = "route_query" =>
        /\ ~IsRaise(returned)
        /\ returned.response_text # ""
        /\ returned.selected_module \in {"CAG", "RAG", "KAG", "SLM", "fallback"}

\* C1, its case: formatting the module's response raised, and the caller
\* received the generic apology.
C1_Witness ==
    /\ pc = "route_query"
    /\ returned.response_text = RoutingError
    /\ "error" \in DOMAIN returned

PickedResponse ==
    IF returned.routing_analysis.selected_module = "CAG"
    THEN cag_get_response(cag_module.cache_data, asked)
    ELSE kag_get_response(kag_module.knowledge_data, kag_module.knowledge_graph, asked)

\* C3: when the selected strategy is available and its get_response yields
\* Failed, the response is the conversational module's, marked as a
\* fallback, and not the failed result rendered.
C3_FailedFallsBackToSLM ==
    (/\ pc = "route_query"
     /\ returned.routing_analysis.selected_module \in {"CAG", "KAG"}
     /\ Available(controller, returned.routing_analysis.selected_module)
     /\ IsFailed(PickedResponse)) =>
        /\ returned.selected_module \in {"fallback", "SLM"}
        /\ "module_response" \in DOMAIN returned
        /\ returned.module_response.source = "SLM"

(***************************************************************************)
(* Properties of the controller from its construction on, under            *)
(* SpecStartup                                                             *)
(***************************************************************************)
\* A snapshot file that is present and that json.load decodes.
Loadable(file) == file.exists /\ ~IsRaise(file.content)

\* The last of a sequence of reasoning steps.
LastStep(steps) == steps[Len(steps)]

\* C11: once the controller has been constructed with the repository's
\* knowledge file on disk, route_query("how to get water pipeline repaired")
\* is answered by KAG, with at least 4 reasoning steps, the last of which
\* holds a contact number.
C11_PipelineRepairAnsweredByGraph ==
    (/\ pc = "route_query"
     /\ asked = "how to get water pipeline repaired"
     /\ disk.knowledge_file = Stored(civic_knowledge)) =>
        /\ returned.selected_module = "KAG"
        /\ returned.module_response.source = "KAG"
        /\ Len(returned.module_response.data.reasoning_steps) >= 4
        /\ Contains(LastStep(returned.module_response.data.reasoning_steps).result,
                    "044-45674567")

\* C12: after construction a strategy is unavailable only if its own
\* snapshot could not be loaded: every strategy whose snapshot is present
\* and can be decoded is available, and a query routed to it is answered by
\* it.
C12_OnlyFailedPartitionUnavailable ==
    pc # "new" =>
        /\ Loadable(disk.cache_file) => controller.cag_available
        /\ Loadable(disk.knowledge_file) => controller.kag_available
        /\ disk.docs_path.exists => controller.rag_available
        /\ controller.slm_available
        /\ (/\ pc = "route_query"
            /\ returned.routing_analysis.selected_module = "CAG"
            /\ Loadable(disk.cache_file)) => returned.selected_module = "CAG"


\* C26: constructing the cache, graph or document module with the
\* repository's own snapshot on disk completes without raising, so that the
\* controller holds the module and its availability flag is true.
C26_RepositorySnapshotConstructs ==
    pc # "new" =>
        /\ disk.cache_file = Stored(civic_cache) =>
              (cag_module # None /\ controller.cag_available)
        /\ disk.knowledge_file = Stored(civic_knowledge) =>
              (kag_module # None /\ controller.kag_available)
        /\ disk.docs_path = Folder(<< <<"water_supply_guidelines.txt",
                                        water_supply_guidelines>> >>) =>
              (rag_module # None /\ controller.rag_available)

(***************************************************************************)
(* Properties of the document module, under SpecRAG                        *)
(***************************************************************************)
\* The index gave get_response no hit: the module holds no indexed chunk,
\* or the search raised.
NoLocalHit == replied = None \/ IsRaise(replied)

\* C13: get_response keeps the local hits (at most 3, ranked 1, 2, .. among
\* themselves, each a chunk of the module) under 'documents' and the web
\* results (at most 2, unranked) under 'web_sources'; it reports no success
\* exactly when both lists are empty, so without a local hit the web results
\* alone make it a success.
C13_TwoListsEmptyOnlyWhenBothEmpty ==
    pc = "rag_get_response" =>
        LET web == search_web(asked, WebResults)
        IN  /\ ~IsFailed(returned)
            /\ IsEmpty(returned) <=> (NoLocalHit /\ Len(web) = 0)
            /\ returned.success =>
                  /\ Len(returned.data.documents) <= 3
                  /\ Len(returned.data.web_sources) <= 2
                  /\ NoLocalHit <=> (Len(returned.data.documents) = 0)
                  /\ returned.data.web_sources = web
                  /\ returned.data.total_sources =
                        Len(returned.data.documents) + Len(returned.data.web_sources)
                  /\ \A i \in DOMAIN returned.data.documents :
                        /\ returned.data.documents[i].rank = i
                        /\ "url" \notin DOMAIN returned.data.documents[i]
                        /\ \E k \in DOMAIN rag_module.documents :
                              rag_module.documents[k].id = returned.data.documents[i].id
                  /\ \A j \in DOMAIN returned.data.web_sources :
                        /\ "rank" \notin DOMAIN returned.data.web_sources[j]
                        /\ "url" \in DOMAIN returned.data.web_sources[j]

\* C13, its case: the module holds indexed chunks, the search of the index
\* failed, and the web results alone made the answer a success.
C13_Witness ==
    /\ pc = "rag_get_response"
    /\ Indexed > 0
    /\ IsRaise(replied)
    /\ returned.success
    /\ Len(returned.data.documents) = 0
    /\ Len(returned.data.web_sources) = 2


(***************************************************************************)
(* Properties of _split_document, under SpecChunk                          *)
(***************************************************************************)
\* The bodies of the chunks one after the other.
Bodies(chunks) == Join("", [n \in DOMAIN chunks |-> chunks[n].content])

\* The length of the longest of the paragraphs.
Largest(paragraphs) ==
    CHOOSE m \in {Len(paragraphs[n]) : n \in DOMAIN paragraphs} :
        \A n \in DOMAIN paragraphs : Len(paragraphs[n]) <= m

\* C14: for every document, the chunk bodies in order, with the paragraph
\* separators taken out, are the text of the document's paragraphs in order
\* with nothing lost, and no body is longer than chunk_size plus the longest
\* paragraph.
C14_ChunksReproduceDocument ==
    pc = "_split_document" =>
        LET paragraphs == Split(asked[1], "\n\n")
        IN  /\ Replace(Bodies(returned), "\n\n", "") = Join("", paragraphs)
            /\ \A n \in DOMAIN returned :
                  Len(returned[n].content) <= asked[2] + Largest(paragraphs)


\* The paragraphs that g places in chunk k, joined as the chunk holds them.
Group(paragraphs, g, k) ==
    LET members == {n \in DOMAIN paragraphs : g[n] = k}
    IN  Join("\n\n", SubSeq(paragraphs, Least(members),
                            CHOOSE n \in members : \A m \in members : m <= n))

\* g places the paragraphs in the chunks as the accumulation does: in order,
\* every chunk the text of its paragraphs, a paragraph joining the running
\* chunk unless that would exceed chunk_size, and a paragraph longer than
\* chunk_size alone in its chunk.
Accumulated(paragraphs, chunks, g, chunk_size) ==
    /\ \A k \in DOMAIN chunks :
          /\ \E n \in DOMAIN paragraphs : g[n] = k
          /\ chunks[k].content = Group(paragraphs, g, k)
    /\ g[1] = 1
    /\ \A n \in 2..Len(paragraphs) :
          LET running == Join("\n\n", SubSeq(paragraphs,
                              Least({m \in 1..(n - 1) : g[m] = g[n - 1]}), n - 1))
          IN  IF Len(running) + 2 + Len(paragraphs[n]) > chunk_size
              THEN g[n] = g[n - 1] + 1
              ELSE g[n] = g[n - 1]
    /\ \A n \in DOMAIN paragraphs :
          Len(paragraphs[n]) > chunk_size =>
              \A m \in DOMAIN paragraphs : g[m] = g[n] => m = n

\* C24: the chunks of a document are its paragraphs accumulated in order:
\* every paragraph lies whole in exactly one chunk, a chunk is closed when
\* the next paragraph would take it over chunk_size, the last chunk is
\* flushed, and a paragraph longer than chunk_size is a chunk of its own.
C24_ParagraphsAccumulatedWhole ==
    pc = "_split_document" =>
        LET paragraphs == Split(asked[1], "\n\n")
        IN  \E g \in [DOMAIN paragraphs -> DOMAIN returned] :
                Accumulated(paragraphs, returned, g, asked[2])

\* The first place at or after `from` where text occurs in content, 0 if
\* there is none.
FirstAt(content, text, from) ==
    LET at == {i \in from..(Len(content) - Len(text) + 1) :
                  SubSeq(content, i, i + Len(text) - 1) = text}
    IN  IF at = {} THEN 0 ELSE Least(at)

\* The texts occur in content one after the other, from the k-th text and
\* the place `from` on.
RECURSIVE InOrder(_, _, _, _)
InOrder(content, texts, k, from) ==
    IF k > Len(texts) THEN TRUE
    ELSE LET at == FirstAt(content, texts[k], from)
         IN  at > 0 /\ InOrder(content, texts, k + 1, at + Len(texts[k]))

\* The places in the index of the chunks of one source, and their bodies in
\* the order of the index.
ChunksOf(documents, source) == {i \in DOMAIN documents : documents[i].source = source}

BodiesOf(documents, source) ==
    [r \in 1..Cardinality(ChunksOf(documents, source)) |->
        documents[NthSmallest(ChunksOf(documents, source), r)].content]

\* C25: after the files of a directory were loaded, no two chunks of the
\* index have the same id; the chunk_id of a chunk is the number of chunks of
\* its source before it in the index, so that the chunk_ids of a source are
\* 0, 1, ..., n-1; and the bodies of the chunks of a source occur in the
\* source's text one after the other in the order of the index.
C25_ChunkIdsDistinctAndOrdered ==
    pc = "load_documents" =>
        /\ \A i, j \in DOMAIN returned : i # j => returned[i].id # returned[j].id
        /\ \A i \in DOMAIN returned :
              returned[i].chunk_id
                 = Cardinality({j \in ChunksOf(returned, returned[i].source) : j < i})
        /\ \A f \in DOMAIN asked :
              /\ ChunksOf(returned, asked[f][1]) # {} => EndsWith(asked[f][1], ".txt")
              /\ InOrder(asked[f][2], BodiesOf(returned, asked[f][1]), 1, 1)

\* C25, its case: two sources were loaded, one of them in several chunks.
C25_Witness ==
    /\ pc = "load_documents"
    /\ \E i, j, k \in DOMAIN returned :
          /\ returned[i].source # returned[j].source
          /\ returned[j].source = returned[k].source
          /\ returned[j].chunk_id = 0
          /\ returned[k].chunk_id = 1

(***************************************************************************)
(* Properties of serving a request, under Spec                             *)
(***************************************************************************)
\* C15: a step that serves a request (route_query, with the get_response
\* and format_response it calls, whether it finds, finds nothing, fails or
\* raises) leaves the availability flags, the cache data, the chunks and
\* their index, and the knowledge data and graph as they were.
C15_ServingLeavesEngineUnchanged ==
    [][pc = "idle" => objects' = objects]_vars

\* C15, its case: a request was served by the document module, whose search
\* set a score and a rank on the hits it returned.
C15_Witness ==
    /\ pc = "route_query"
    /\ returned.selected_module = "RAG"
    /\ returned.success
    /\ Len(returned.module_response.data.documents) > 0
    /\ \A i \in DOMAIN returned.module_response.data.documents :
          "score" \in DOMAIN returned.module_response.data.documents[i]
    /\ \A k \in DOMAIN rag_module.documents :
          "score" \notin DOMAIN rag_module.documents[k]


\* C16: a call of an external collaborator is made with a deadline: when
\* route_query waits in the completion call and the collaborator does not
\* answer, the program can still take a step (the deadline expires and the
\* answer is given without the collaborator).
C16_UnansweredCallExpires ==
    pc = Awaiting => ENABLED Next


\* The error texts a response carries: that of the exception route_query
\* caught, and that of the failure its module reported.
ErrorsOf(response) ==
    (IF "error" \in DOMAIN response THEN {response.error} ELSE {})
    \cup (IF /\ "module_response" \in DOMAIN response
             /\ "error" \in DOMAIN response.module_response
          THEN {response.module_response.error} ELSE {})

\* The fixed sentences of the failure paths.
Apologies ==
    {RoutingError, NoModules, CacheMiss, SlmApology,
     "I don't have structured knowledge about 'your request'. Let me try other sources.",
     "I couldn't find recent information about 'your request'. Let me try other sources."}

\* The names of the strategies and of their snapshots.
PartitionNames ==
    {"CAG", "RAG", "KAG", "SLM", "civic_cache", "civic_knowledge", "civic_docs"}

\* C17: whenever route_query answers without success, the text it returns
\* holds none of the error texts of the response and no strategy or snapshot
\* name; when something failed (an exception was caught, a module reported
\* a failure, or no module was available) the text is one of the fixed
\* apology sentences.  process_query shows that text as it is.
C17_FailureTextIsGeneric ==
    /\ (pc = "route_query" /\ ~returned.success) =>
          /\ \A e \in ErrorsOf(returned) : ~Contains(returned.response_text, e)
          /\ \A n \in PartitionNames : ~Contains(returned.response_text, n)
          /\ ErrorsOf(returned) # {} => returned.response_text \in Apologies
    /\ (pc = "process_query" /\ ~returned.success) =>
          /\ returned.module # "ERROR"
          /\ \A n \in PartitionNames : ~Contains(returned.content, n)
          /\ \A c \in Completions, h \in HitLists(Indexed) :
                Routed(asked, c, h).success
                \/ \A e \in ErrorsOf(Routed(asked, c, h)) :
                      ~Contains(returned.content, e)

\* C17, its case: the cache module reported a failure with its error text,
\* and the text returned is the module's fixed sentence.
C17_Witness ==
    /\ pc = "route_query"
    /\ ~returned.success
    /\ returned.selected_module = "CAG"
    /\ "error" \in DOMAIN returned.module_response
    /\ returned.response_text = CacheMiss


\* The completion call answered with text: a str content that is not blank.
HasText(completion) ==
    /\ completion.type = "completion"
    /\ completion.content.type = "str"
    /\ Strip(completion.content.value) # ""

\* C18: get_response has two tiers.  When the completion client is set up
\* and the call answers with text (a str that is not blank), the result
\* carries that text, without the surrounding whitespace, with method
\* "OpenAI API".  In every other case (client not set up, call raising,
\* content None or blank) the result carries the predefined response of the
\* query's type with method "Fallback Response".  In both tiers the result
\* is a success without an error field, and the error of a raising call is
\* not in the response.
C18_GeneratedElsePredefined ==
    pc = "slm_get_response" =>
        /\ returned.success
        /\ "error" \notin DOMAIN returned
        /\ IF slm_module.client_available /\ HasText(replied)
           THEN /\ returned.data.method = "OpenAI API"
                /\ returned.data.response = Strip(replied.content.value)
           ELSE /\ returned.data.method = "Fallback Response"
                /\ returned.data.query_type = classify_query_type(asked)
                /\ returned.data.response
                      = fallback_responses[classify_query_type(asked)]
        /\ IsRaise(replied) => ~Contains(returned.data.response, replied.error)

\* C18, its case: the client is set up and the call raised, and the result
\* is the predefined greeting.
C18_Witness ==
    /\ pc = "slm_get_response"
    /\ slm_module.client_available
    /\ IsRaise(replied)
    /\ returned.data.method = "Fallback Response"
    /\ returned.data.response = fallback_responses["greeting"]


\* The order in which classify_query_type tests its types.
QueryTypeOrder ==
    << "greeting", "who_are_you", "capabilities", "thanks", "goodbye", "help",
       "how_it_works", "about_chennai", "feedback" >>

\* The rules of the table that have a keyword in the lowercased query.
MatchingRules(query) ==
    { i \in 1..Len(query_type_rules) :
        \E k \in 1..Len(query_type_rules[i][2]) :
            Contains(Lower(query), query_type_rules[i][2][k]) }

\* C19: classify_query_type tests its types in the order greeting,
\* who_are_you, capabilities, thanks, goodbye, help, how_it_works,
\* about_chennai, feedback; it returns the earliest type of this order that
\* has a keyword in the lowercased query, and "default" exactly when no type
\* has one.
C19_EarliestMatchingTypeWins ==
    /\ Len(query_type_rules) = Len(QueryTypeOrder)
    /\ \A i \in 1..Len(QueryTypeOrder) : query_type_rules[i][1] = QueryTypeOrder[i]
    /\ pc = "classify_query_type" =>
          /\ returned = "default" <=> MatchingRules(asked) = {}
          /\ MatchingRules(asked) # {} =>
                \E i \in MatchingRules(asked) :
                    /\ returned = QueryTypeOrder[i]
                    /\ \A j \in MatchingRules(asked) : i <= j

\* C19, its case: a query with keywords of two types, answered with the
\* earlier one.
C19_Witness ==
    /\ pc = "classify_query_type"
    /\ \E i, j \in MatchingRules(asked) :
          i < j /\ returned = QueryTypeOrder[i]


\* The trigger words of the coarse categories, in the order search_cache
\* tests them (the order of CacheTables).
CacheTriggers ==
    << emergency_triggers, government_triggers, civic_triggers, zone_triggers,
       quick_triggers >>

\* The coarse categories with a trigger word in the lowercased query.
MatchedCategories(query) ==
    { t \in DOMAIN CacheTriggers :
        \E k \in DOMAIN CacheTriggers[t] : Contains(Lower(query), CacheTriggers[t][k]) }

\* The entries of category t's table whose keyword is in the query.
ContainedKeywords(t, query) ==
    { e \in DOMAIN CacheTables[t].table :
        Contains(Lower(query), CacheTables[t].table[e][1]) }

ListValued(entry) == Len(entry) = 3 /\ entry[3]

\* Those of them whose cache key is in the category's data (a dict); the
\* entry with a list of keys counts whatever the data holds.
UsableKeywords(cache, t, query) ==
    { e \in ContainedKeywords(t, query) :
        \/ ListValued(CacheTables[t].table[e])
        \/ CacheTables[t].table[e][2]
              \in DOMAIN CategoryData(cache, CacheTables[t].category).items }

\* The value and the label a result carries.
ValueOf(result) ==
    CASE result.type = "emergency_contact"  -> result.number
      [] result.type = "government_contact" -> result.number
      [] result.type = "civic_service"      -> result.helpline
      [] result.type = "zone_contact"       -> result.contact
      [] result.type = "quick_info"         -> result.details

LabelOf(result) ==
    CASE result.type = "emergency_contact"  -> result.service
      [] result.type = "government_contact" -> result.office
      [] result.type = "civic_service"      -> result.service
      [] result.type = "zone_contact"       -> result.zone
      [] result.type = "quick_info"         -> result.info_type

\* result is the entry of the e-th keyword of category t's table: the value
\* the cache holds under the keyword's key, labelled with the keyword; for
\* the entry with a list of keys, the websites the cache holds.
IsEntry(cache, t, e, result) ==
    LET entry == CacheTables[t].table[e]
        data == CategoryData(cache, CacheTables[t].category)
    IN  /\ data.kind = "dict"
        /\ IF ListValued(entry)
           THEN /\ result.type = "websites"
                /\ {result.websites[i] : i \in DOMAIN result.websites}
                      = {<<entry[2][k], data.items[entry[2][k]]>> :
                            k \in {j \in DOMAIN entry[2] : entry[2][j] \in DOMAIN data.items}}
           ELSE /\ entry[2] \in DOMAIN data.items
                /\ result.type = CacheTables[t].kind
                /\ ValueOf(result) = data.items[entry[2]]
                /\ LabelOf(result) = Title(entry[1])

\* C20 as stated: in the first coarse category with a trigger word in the
\* query, the first keyword of the table that is in the query determines the
\* entry search_cache returns; search_cache returns None, and get_response
\* reports Empty, when no coarse category matches or no keyword of the
\* matched category's table is in the query.
C20_FirstContainedKeywordDecides ==
    LET cache == cag_module.cache_data
        matched == MatchedCategories(asked)
        found == IF matched = {} THEN {}
                 ELSE ContainedKeywords(Least(matched), asked)
    IN  /\ pc = "search_cache" =>
              IF found = {} THEN returned = None
              ELSE IsEntry(cache, Least(matched), Least(found), returned)
        /\ pc = "cag_get_response" => (found = {} => IsEmpty(returned))

\* What search_cache does with a query: "none" when no coarse category
\* matches; otherwise, in the first matched category, "raise" when a keyword
\* is in the query and the category's data is null, "entry" when a keyword
\* in the query has its key in the data, "all" when there is none and the
\* category is the emergency one and the query holds both 'emergency' and
\* 'all', and "none" in every other case.
CacheOutcome(cache, query) ==
    LET matched == MatchedCategories(query)
    IN  IF matched = {} THEN "none"
        ELSE LET t == Least(matched)
                 data == CategoryData(cache, CacheTables[t].category)
             IN  IF data.kind = "null"
                 THEN IF ContainedKeywords(t, query) # {} THEN "raise"
                      ELSE IF /\ t = 1
                              /\ Contains(Lower(query), "emergency")
                              /\ Contains(Lower(query), "all")
                      THEN "all" ELSE "none"
                 ELSE IF UsableKeywords(cache, t, query) # {} THEN "entry"
                 ELSE IF /\ t = 1
                         /\ Contains(Lower(query), "emergency")
                         /\ Contains(Lower(query), "all")
                 THEN "all" ELSE "none"

\* C20, amended: in the first coarse category with a trigger word in the
\* query, the first keyword of the table that is in the query and whose key
\* is in the category's data determines the entry returned (the 'website'
\* keyword counts whenever it is in the query and yields the websites the
\* data holds).  When there is no such keyword, a query of the emergency
\* category that holds both 'emergency' and 'all' gets all the emergency
\* contacts; otherwise, and when no coarse category matches, search_cache
\* returns None and get_response reports Empty.  A category whose data is
\* null makes the lookup raise as soon as a keyword is in the query.
C20_FirstUsableKeywordDecides ==
    LET cache == cag_module.cache_data
        outcome == CacheOutcome(cache, asked)
        t == Least(MatchedCategories(asked))
    IN  /\ pc = "search_cache" =>
              CASE outcome = "none"  -> returned = None
                [] outcome = "raise" -> returned = Raise(NotIterable)
                [] outcome = "all"   ->
                      /\ returned.type = "all_emergency_contacts"
                      /\ returned.contacts = CategoryData(cache, "emergency_contacts")
                [] outcome = "entry" ->
                      IsEntry(cache, t, Least(UsableKeywords(cache, t, asked)), returned)
        /\ pc = "cag_get_response" =>
              /\ IsEmpty(returned) <=> outcome = "none"
              /\ IsFailed(returned) <=> outcome = "raise"
              /\ IsFound(returned) <=> outcome \in {"entry", "all"}

\* C20, its case: two keywords of the matched category's table are in the
\* query, the key of the first is not in the data, and the entry returned is
\* that of the second.
C20_Witness ==
    /\ pc = "search_cache"
    /\ MatchedCategories(asked) # {}
    /\ LET t == Least(MatchedCategories(asked))
           found == ContainedKeywords(t, asked)
           usable == UsableKeywords(cag_module.cache_data, t, asked)
       IN  /\ CategoryData(cag_module.cache_data, CacheTables[t].category).kind = "dict"
           /\ usable # {}
           /\ Least(found) < Least(usable)
           /\ IsEntry(cag_module.cache_data, t, Least(usable), returned)


(***************************************************************************)
(* Properties of the graph module, under SpecKAG                           *)
(***************************************************************************)
\* The issue nodes find_responsible_department looks at for a query: those of
\* the keywords in the lowercased query that are nodes of the graph, by their
\* place in issue_keywords.
Candidates(graph, query) ==
    { n \in DOMAIN issue_keywords :
        /\ Contains(Lower(query), issue_keywords[n][1])
        /\ HasNode(graph, issue_keywords[n][2]) }

\* The successors of a node that carry the given type.
Typed(graph, node, type) ==
    { i \in DOMAIN successors(graph, node) :
        /\ "type" \in DOMAIN graph.attrs[successors(graph, node)[i]]
        /\ graph.attrs[successors(graph, node)[i]].type = type }

\* A successor of the node was never declared: it has no attributes.
BareSuccessor(graph, node) ==
    \E i \in DOMAIN successors(graph, node) :
        DOMAIN graph.attrs[successors(graph, node)[i]] = {}

\* A hop of the chain from the issue is missing: the issue or one of the
\* nodes the traversal meets has no attributes, or there is no service
\* successor, or the service has no department successor.
HopMissing(graph, issue_id) ==
    \/ DOMAIN graph.attrs[issue_id] = {}
    \/ BareSuccessor(graph, issue_id)
    \/ Typed(graph, issue_id, "service") = {}
    \/ LET service_id ==
               successors(graph, issue_id)[Least(Typed(graph, issue_id, "service"))]
       IN  \/ BareSuccessor(graph, service_id)
           \/ Typed(graph, service_id, "department") = {}

\* The record is the complete chain from the issue: the issue, a service
\* it leads to and a department the service leads to, each with its name.
IsChain(graph, issue_id, chain) ==
    /\ DOMAIN chain = {"issue_id", "issue_name", "service_id", "service_name",
                       "department_id", "department_name"}
    /\ chain.issue_id = issue_id
    /\ \E i \in Typed(graph, issue_id, "service") :
          chain.service_id = successors(graph, issue_id)[i]
    /\ \E i \in Typed(graph, chain.service_id, "department") :
          chain.department_id = successors(graph, chain.service_id)[i]
    /\ chain.issue_name = graph.attrs[issue_id].name
    /\ chain.service_name = graph.attrs[chain.service_id].name
    /\ chain.department_name = graph.attrs[chain.department_id].name

\* C21 as stated: find_responsible_department raises nothing and returns
\* None or a complete chain, and it returns None whenever a hop is missing
\* from an issue it looks at.
C21_MissingHopYieldsEmpty ==
    pc = "find_responsible_department" =>
        LET graph == kag_module.knowledge_graph
        IN  /\ ~IsRaise(returned)
            /\ returned # None =>
                  \E n \in Candidates(graph, asked) :
                      IsChain(graph, issue_keywords[n][2], returned)
            /\ (\E n \in Candidates(graph, asked) :
                    HopMissing(graph, issue_keywords[n][2])) => returned = None

\* C21, amended: find_responsible_department raises nothing and returns None
\* or a complete chain.  An issue from which a hop is missing yields nothing,
\* and the next issue of the keywords in the query is looked at: the chain
\* returned is that of the first issue from which no hop is missing, and None
\* is returned exactly when a hop is missing from every issue looked at.
C21_MissingHopYieldsNoChainForIssue ==
    pc = "find_responsible_department" =>
        LET graph == kag_module.knowledge_graph
            whole == { n \in Candidates(graph, asked) :
                         ~HopMissing(graph, issue_keywords[n][2]) }
        IN  /\ ~IsRaise(returned)
            /\ returned = None <=> whole = {}
            /\ whole # {} => IsChain(graph, issue_keywords[Least(whole)][2], returned)

\* C21, its case: every issue of the query's keywords has a hop missing (its
\* service leads to an undeclared department), and nothing is returned.
C21_Witness ==
    /\ pc = "find_responsible_department"
    /\ Candidates(kag_module.knowledge_graph, asked) # {}
    /\ \A n \in Candidates(kag_module.knowledge_graph, asked) :
          /\ Typed(kag_module.knowledge_graph, issue_keywords[n][2], "service") # {}
          /\ HopMissing(kag_module.knowledge_graph, issue_keywords[n][2])
    /\ returned = None


\* The node ids a snapshot declares, and the ends of the edges it holds.
Range(f) == {f[i] : i \in DOMAIN f}

DeclaredNodes(knowledge_data) ==
    LET entities == Get(knowledge_data, "entities", <<>>)
    IN  {d.id : d \in Range(Get(entities, "departments", <<>>))}
        \cup {v.id : v \in Range(Get(entities, "services", <<>>))}
        \cup {i.id : i \in Range(Get(entities, "issues", <<>>))}
        \cup Range(Get(knowledge_data, "procedures", EmptyDict).keys)

EdgeEnds(knowledge_data) ==
    LET entities == Get(knowledge_data, "entities", <<>>)
    IN  UNION {{v.id, v.department} : v \in Range(Get(entities, "services", <<>>))}
        \cup UNION {{i.id, i.service} : i \in Range(Get(entities, "issues", <<>>))}
        \cup UNION {{r.from, r.to} : r \in Range(Get(knowledge_data, "relationships", <<>>))}

\* C22 as stated: build_knowledge_graph on a snapshot with an edge whose end
\* is not a declared node fails, and a graph it leaves has no node that was
\* never declared (a node without attributes, made by add_edge).
C22_UndeclaredEndFailsLoad ==
    pc = "build_knowledge_graph" =>
        /\ ~(EdgeEnds(kag_module.knowledge_data)
                \subseteq DeclaredNodes(kag_module.knowledge_data))
              => IsRaise(returned)
        /\ ~IsRaise(returned) =>
              /\ Range(returned.nodes) \subseteq DeclaredNodes(kag_module.knowledge_data)
              /\ \A n \in Range(returned.nodes) : DOMAIN returned.attrs[n] # {}


\* The compound shapes multi_hop_reasoning recognises, and the area names
\* the zone table of the cache module knows.
RecognisedShape(query) ==
    \/ /\ Contains(Lower(query), "repair")
       /\ (Contains(Lower(query), "water") \/ Contains(Lower(query), "pipeline"))
    \/ /\ Contains(Lower(query), "property tax")
       /\ (Contains(Lower(query), "pay") \/ Contains(Lower(query), "how"))

AreaNamed(query) ==
    \E i \in DOMAIN zone_keywords : Contains(Lower(query), zone_keywords[i][1])

StepOrder ==
    << "Identify Issue", "Find Responsible Service", "Find Responsible Department",
       "Get Contact Information", "Area-specific Contact" >>

\* C23 as stated: for a query of a recognised shape multi_hop_reasoning
\* returns steps numbered 1, 2, ... that are the issue, service, department
\* and contact steps in this order, followed by the area-specific contact
\* step exactly when the query names an area; for every other query it
\* returns no step.
C23_StepsInFixedOrder ==
    pc = "multi_hop_reasoning" =>
        IF RecognisedShape(asked)
        THEN /\ Len(returned) = IF AreaNamed(asked) THEN 5 ELSE 4
             /\ \A i \in DOMAIN returned :
                   /\ returned[i].step = i
                   /\ returned[i].action = StepOrder[i]
        ELSE returned = <<>>


ProbeReaches(cache, t, e) ==
    \E k \in DOMAIN CacheTriggers[t] :
        IsEntry(cache, t, e,
                search_cache(cache, CacheTables[t].table[e][1] \o " "
                                       \o CacheTriggers[t][k]))

\* Every query with the e-th keyword of category t's table is answered from
\* elsewhere: an earlier keyword of the table whose key the cache holds is
\* part of the keyword, or a trigger word of an earlier category is.
Shadowed(cache, t, e) ==
    LET keyword == CacheTables[t].table[e][1]
    IN  \/ \E d \in 1..(e - 1) :
              /\ Contains(keyword, CacheTables[t].table[d][1])
              /\ KeyExists(cache, CacheTables[t].category, CacheTables[t].table[d])
        \/ \E u \in 1..(t - 1) : \E k \in DOMAIN CacheTriggers[u] :
              Contains(keyword, CacheTriggers[u][k])

\* C28: for every keyword of the five tables whose key the cache holds there
\* is a query for which search_cache returns the keyword's entry: the
\* keyword is shadowed neither by an earlier keyword of its table nor by a
\* trigger word of an earlier category, and the query made of the keyword and
\* a trigger word of its category gets the entry.
C28_EveryMappingReachable ==
    pc = "search_cache" =>
        \A t \in DOMAIN CacheTables : \A e \in DOMAIN CacheTables[t].table :
            KeyExists(cag_module.cache_data, CacheTables[t].category,
                      CacheTables[t].table[e])
                => /\ ~Shadowed(cag_module.cache_data, t, e)
                   /\ ProbeReaches(cag_module.cache_data, t, e)

(***************************************************************************)
(* Properties of the chat page (CivicMindAIApp), under SpecApp             *)
(***************************************************************************)
\* The messages of a session are as many as twice its count of queries and
\* are by turns the user's and the assistant's, the user's first.
Paired(state) ==
    /\ Len(state.messages) = 2 * state.query_count
    /\ \A i \in DOMAIN state.messages :
          state.messages[i].role = IF i % 2 = 1 THEN "user" ELSE "assistant"

\* A session with no message and a count of 0.
Fresh(state) == state.messages = <<>> /\ state.query_count = 0

\* C29: at the end of every script run of the chat page, whatever queries,
\* Clear Chat and Reset Session came before, the session holds 2 x
\* query_count messages that alternate user, assistant from a user message
\* on; the run of Clear Chat ends with no message and a count of 0, and so
\* does the run that follows Clear Chat or Reset Session (Reset Session
\* itself leaves no key at all).
C29_MessagesPairedWithQueries ==
    /\ [](/\ pc \in {"idle", "run", "clear_chat"} => Paired(session_state)
          /\ pc = "clear_chat" => Fresh(session_state)
          /\ pc = "reset_session" => session_state = NoSession)
    /\ [][(pc \in {"clear_chat", "reset_session"}) => Fresh(session_state')]_vars

\* Two queries have been answered in a session that began with Reset Session.
C29_Witness ==
    /\ pc = "idle"
    /\ constructions = 2
    /\ session_state.query_count = 2
    /\ Len(session_state.messages) = 4

\* C30: in a session that holds the key 'controller', no script run but the
\* one of Reset Session calls AgentController() or changes what the key
\* holds or the controller's flags and modules: the engine is built at most
\* once and the same one answers every query.  The call records the
\* instance it made, or None when it raised, and a query in a session whose
\* controller is None is answered 'system unavailable', any other by the
\* strategy the controller serves it with.
C30_EngineBuiltOncePerSession ==
    [][/\ constructions' # constructions =>
             /\ "controller" \notin DOMAIN session_state
             /\ session_state'.controller =
                   IF IsRaise(AgentController(disk)) THEN None
                   ELSE Instance(constructions')
       /\ ("controller" \in DOMAIN session_state /\ pc' # "reset_session") =>
             /\ session_state'.controller = session_state.controller
             /\ constructions' = constructions
             /\ controller' = controller
             /\ cag_module' = cag_module
             /\ kag_module' = kag_module
             /\ slm_module' = slm_module
             /\ pc' = "run" =>
                   IF session_state.controller = None
                   THEN /\ returned'.content = AppUnavailable
                        /\ returned'.module = "ERROR"
                   ELSE /\ returned'.content # AppUnavailable
                        /\ returned'.module =
                              Serving(controller, Analysis(asked').selected_module)
      ]_vars

\* AgentController() raised in the first run of the session; the second
\* query of the session is answered 'system unavailable' and there has been
\* no other call.
C30_Witness ==
    /\ pc = "run"
    /\ disk.importable
    /\ constructions = 1
    /\ session_state.controller = None
    /\ session_state.query_count = 2
    /\ returned.content = AppUnavailable

=============================================================================
